---- MODULE Spec2Model ----
(***************************************************************************)
(* ideAlarm (community/idealarm/__init__.py): the multi-zone alarm state   *)
(* machine of the Jython helper libraries, with the item helpers of        *)
(* core/utils.py it is built on.                                           *)
(*                                                                         *)
(* Every method of the source is an operator that takes the program state  *)
(* W (a record of the objects' fields and the item registry) and one       *)
(* instruction, and returns the new state and the calls it makes next, in  *)
(* order (field k).  Run runs a call to its end; a handler run that way    *)
(* is the sequential reading of the code (specification Spec).  The same   *)
(* operators, run one instruction at a time by two threads, are the        *)
(* concurrent reading (specification SpecConc): the source takes no lock.  *)
(***************************************************************************)
EXTENDS Integers, Sequences, FiniteSets, TLC

VARIABLES
    armingMode,     \* IdeAlarmZone._armingMode, per zone
    zoneStatus,     \* IdeAlarmZone._zoneStatus, per zone
    openSections,   \* IdeAlarmZone.openSections, per zone
    item,           \* the item registry: item name -> state (as its string)
    enabled,        \* what IdeAlarmSensor.isEnabled() answers, per sensor
    alarmTestMode,  \* IdeAlarm.alarmTestMode (ALARM_TEST_MODE)
    zoneSensors,    \* the 'sensors' of each zone of the configuration
    pending,        \* trigger events raised and not yet handled by execute
    reported,       \* per sensor: the states its events in flight were raised with
    threads,        \* per rule thread: the calls it still has to make
    batch,          \* the events the running threads were started with
    snap,           \* the program state when the running threads started
    prelude,        \* steps taken before the threads were started
    hooks,          \* calls of the custom hooks made by the running threads
    raised,         \* the IdeAlarmError of the step just taken ("" if none)
    scenario,       \* progress of the sensor / entry timer / toggle sequence
    answer          \* the last query of another script, and what it returned

vars == <<armingMode, zoneStatus, openSections, item, enabled, alarmTestMode,
          zoneSensors, pending, reported, threads, batch, snap, prelude, hooks, raised, scenario, answer>>

(***************************************************************************)
(* ZONESTATUS, ARMINGMODE and None                                         *)
(***************************************************************************)
NORMAL == 0
ALERT == 1
ERROR == 2
TRIPPED == 3
ARMING == 4

DISARMED == 0
ARMED_HOME == 1
ARMED_AWAY == 2

None == -1

ZONESTATUS == {NORMAL, ALERT, ERROR, TRIPPED, ARMING}
ARMINGMODE == {DISARMED, ARMED_HOME, ARMED_AWAY}

(***************************************************************************)
(* Bounds of the model                                                     *)
(***************************************************************************)
MaxPending == 1     \* trigger events in flight at once (Spec, SpecApi)
MaxRequested == 3   \* largest value a caller passes to setArmingMode
MaxBatch == 2       \* trigger events in flight at once (SpecConc)
MaxPrelude == 3     \* steps before the two threads start (SpecConc)
MaxStatus == 5      \* largest value a caller passes to setZoneStatus
MaxReported == 2    \* events of one sensor in flight at once (SpecEvent)
MaxQueue == 2       \* trigger events in flight at once (SpecQueue)

(***************************************************************************)
(* The configuration (idealarm_configuration): two zones.  Zone 1 refuses  *)
(* to arm with open sensors and has a door contact and a class-B motion    *)
(* detector, and its door contact nags; zone 2 allows it and has a lock,   *)
(* which is enabled or not.                                                *)
(***************************************************************************)
Zones == {1, 2}

\* each device in one zone only
ExclusiveSensors == <<(<<"FrontDoor", "HallMotion">>), (<<"BackLock">>)>>

\* the door contact is configured in both zones
SharedSensors == <<(<<"FrontDoor", "HallMotion">>), (<<"BackLock", "FrontDoor">>)>>

ZoneSensors(z) == zoneSensors[z]

SensorNames == {"FrontDoor", "HallMotion", "BackLock"}

sensorClass(s) == IF s = "HallMotion" THEN "B" ELSE "A"

nag(s) == s = "FrontDoor"

armWarn(s) == s # "HallMotion"

MaybeDisabled == {"BackLock"}

groupNames(s) ==
    CASE s = "HallMotion" -> {"G_Motion"}
      [] s = "BackLock" -> {"G_Lock"}
      [] OTHER -> {}

lockDevice == "G_Lock"

SensorStates(s) == IF s = "HallMotion" THEN {"ON", "OFF"} ELSE {"OPEN", "CLOSED"}

alertDevices(z) == IF z = 1 THEN <<"Siren", "Strobe">> ELSE <<"Bell">>

AlertNames == {"Siren", "Strobe", "Bell"}

canArmWithTrippedSensors(z) == z = 2

customHooks == {"onArmingWithOpenSensors", "onArmingModeChange",
                "onZoneStatusChange", "onNagTimer"}

(***************************************************************************)
(* str() of the numbers written to items and intValue() of their states    *)
(***************************************************************************)
NumStr == <<"0", "1", "2", "3", "4">>

Str(n) == NumStr[n + 1]

IntValue(s) == CHOOSE n \in 0..4 : NumStr[n + 1] = s

(***************************************************************************)
(* Item names                                                              *)
(***************************************************************************)
ZItem(z, suffix) == "Z" \o Str(z) \o suffix

EntryTimer(z) == ZItem(z, "_Entry_Timer")
ExitTimer(z) == ZItem(z, "_Exit_Timer")
NagTimer(z) == ZItem(z, "_Nag_Timer")
AlertMaxTimer(z) == ZItem(z, "_Alert_Max_Timer")
OpenSectionsItem(z) == ZItem(z, "_Open_Sections")
armingModeItem(z) == ZItem(z, "_Arming_Mode")
statusItem(z) == ZItem(z, "_Status")
armAwayToggleSwitch(z) == ZItem(z, "_Arm_Away_Toggle")
armHomeToggleSwitch(z) == ZItem(z, "_Arm_Home_Toggle")

TimerItems(z) == {EntryTimer(z), ExitTimer(z), NagTimer(z), AlertMaxTimer(z)}

AllTimerItems == UNION {TimerItems(z) : z \in Zones}

ToggleItems == {armAwayToggleSwitch(z) : z \in Zones} \cup {armHomeToggleSwitch(z) : z \in Zones}

ItemNames ==
    AllTimerItems \cup AlertNames \cup SensorNames
    \cup {OpenSectionsItem(z) : z \in Zones}
    \cup {armingModeItem(z) : z \in Zones}
    \cup {statusItem(z) : z \in Zones}
(***************************************************************************)
(* Program state, instructions and results                                 *)
(*                                                                         *)
(* An instruction is one call (or one statement) still to be made: op      *)
(* names it, z is the zone, s an item or hook name, a and b are numbers    *)
(* (a mode, a status, a flag), m a string (an item value, a message) and   *)
(* l a list of sensor names.  events.postUpdate and events.sendCommand     *)
(* are taken to change the item at once (the platform's event bus and its  *)
(* autoupdate are not part of the source).                                 *)
(***************************************************************************)
World ==
    [armingMode |-> armingMode, zoneStatus |-> zoneStatus,
     openSections |-> openSections, item |-> item,
     hooks |-> hooks, sent |-> <<>>, raised |-> raised]

Ins(op, z, s, a, b, m) == [op |-> op, z |-> z, s |-> s, a |-> a, b |-> b, m |-> m, l |-> <<>>]

Call(op, z) == Ins(op, z, "", 0, 0, "")

Return(W, k) == [w |-> W, k |-> k, abort |-> FALSE]

Raise(W, message) == [w |-> [W EXCEPT !.raised = message], k |-> <<>>, abort |-> TRUE]

SwitchItems == AllTimerItems \cup AlertNames

(***************************************************************************)
(* core/utils.py                                                           *)
(***************************************************************************)
\* TypeParser.parseState / parseCommand of str(new_value) for the item's types:
\* None ("") when the item does not accept the value.
parseState(name, value) ==
    IF name \in SwitchItems
    THEN (IF value \in {"ON", "OFF"} THEN value ELSE "")
    ELSE (IF \E n \in 1..Len(NumStr) : NumStr[n] = value THEN value ELSE "")

\* getItemValue for a switch default (ON, OFF) and for an int default
getItemValue(W, name, default_value) ==
    IF W.item[name] \notin {"NULL", "UNDEF"} THEN W.item[name] ELSE default_value

getItemIntValue(W, name, default_value) ==
    IF W.item[name] \notin {"NULL", "UNDEF"} THEN IntValue(W.item[name]) ELSE default_value

\* events.postUpdate / events.sendCommand (lines 185, 188)
postUpdate(W, i) ==
    Return([W EXCEPT !.item[i.s] = i.m,
                     !.sent = Append(@, [item |-> i.s, value |-> i.m, command |-> i.a = 1])],
           <<>>)

\* post_update_if_different(i.s, i.m, sendACommand = (i.a = 1)): the item is
\* read and compared, and then written
post_update_if_different(W, i) ==
    LET compare_value == parseState(i.s, i.m)
    IN IF compare_value # "" /\ W.item[i.s] # compare_value
       THEN Return(W, <<[i EXCEPT !.op = "postUpdate"]>>)
       ELSE Return(W, <<>>)

PostUpdate(z, name, value) == Ins("post_update_if_different", z, name, 0, 0, value)

SendCommand(z, name, value) == Ins("post_update_if_different", z, name, 1, 0, value)

SendCommandAll(z, value) ==
    [j \in 1..Len(alertDevices(z)) |-> SendCommand(z, alertDevices(z)[j], value)]

(***************************************************************************)
(* The custom hooks (personal.idealarm.custom): a call is recorded.        *)
(***************************************************************************)
custom(W, i) ==
    Return([W EXCEPT !.hooks = Append(@, [h |-> i.s, z |-> i.z, a |-> i.a, b |-> i.b,
                                           m |-> i.m, l |-> i.l])], <<>>)

\* "if 'onX' in dir(custom): custom.onX(...)"
Hook(name, z, a, b, m) == IF name \in customHooks THEN <<Ins("custom", z, name, a, b, m)>> ELSE <<>>

(***************************************************************************)
(* isActive and IdeAlarmSensor                                             *)
(***************************************************************************)
isActive(W, s) ==
    LET active == W.item[s] \in {"ON", "OPEN"}
    IN IF lockDevice \in groupNames(s) THEN ~active ELSE active

isEnabled(s) == enabled[s]

(***************************************************************************)
(* IdeAlarmZone                                                            *)
(***************************************************************************)
\* fault: setZoneStatus with lines 250-260 left out (nothing is cancelled)
setZoneStatus_keep(W, i) ==
    IF i.a \notin ZONESTATUS
    THEN Raise(W, "Trying to set an invalid zone status")
    ELSE Return([W EXCEPT !.zoneStatus[i.z] = i.a],
                <<Ins("post_update_if_different", i.z, statusItem(i.z), 0, 0, Str(i.a))>>
                \o (IF "onZoneStatusChange" \in customHooks
                    THEN <<Ins("custom", i.z, "onZoneStatusChange", i.a, W.zoneStatus[i.z], i.m)>>
                    ELSE <<>>))

\* fault: line 250 left out (every status cancels the timers and the alert devices)
setZoneStatus_cancelAlways(W, i) ==
    IF i.a \notin ZONESTATUS
    THEN Raise(W, "Trying to set an invalid zone status")
    ELSE Return([W EXCEPT !.zoneStatus[i.z] = i.a],
                <<PostUpdate(i.z, EntryTimer(i.z), "OFF"),
                  PostUpdate(i.z, ExitTimer(i.z), "OFF"),
                  PostUpdate(i.z, AlertMaxTimer(i.z), "OFF")>>
                \o SendCommandAll(i.z, "OFF")
                \o <<PostUpdate(i.z, statusItem(i.z), Str(i.a))>>
                \o Hook("onZoneStatusChange", i.z, i.a, W.zoneStatus[i.z], i.m))

\* fault: onZoneStatusChange is called only when the status changes
setZoneStatus_changed(W, i) ==
    IF i.a \notin ZONESTATUS
    THEN Raise(W, "Trying to set an invalid zone status")
    ELSE LET oldZoneStatus == W.zoneStatus[i.z]
             cancel == IF i.a = NORMAL
                       THEN <<PostUpdate(i.z, EntryTimer(i.z), "OFF"),
                              PostUpdate(i.z, ExitTimer(i.z), "OFF"),
                              PostUpdate(i.z, AlertMaxTimer(i.z), "OFF")>>
                            \o SendCommandAll(i.z, "OFF")
                       ELSE <<>>
         IN Return([W EXCEPT !.zoneStatus[i.z] = i.a],
                   cancel \o <<PostUpdate(i.z, statusItem(i.z), Str(i.a))>>
                          \o (IF i.a # oldZoneStatus
                              THEN Hook("onZoneStatusChange", i.z, i.a, oldZoneStatus, i.m)
                              ELSE <<>>))

setZoneStatus(W, i) ==
    IF i.a \notin ZONESTATUS
    THEN Raise(W, "Trying to set an invalid zone status")
    ELSE LET oldZoneStatus == W.zoneStatus[i.z]
             cancel == IF i.a = NORMAL
                       THEN <<PostUpdate(i.z, EntryTimer(i.z), "OFF"),
                              PostUpdate(i.z, ExitTimer(i.z), "OFF"),
                              PostUpdate(i.z, AlertMaxTimer(i.z), "OFF")>>
                            \o SendCommandAll(i.z, "OFF")
                       ELSE <<>>
         IN Return([W EXCEPT !.zoneStatus[i.z] = i.a],
                   cancel \o <<PostUpdate(i.z, statusItem(i.z), Str(i.a))>>
                          \o Hook("onZoneStatusChange", i.z, i.a, oldZoneStatus, i.m))

SetZoneStatus(z, newZoneStatus, errorMessage) == Ins("setZoneStatus", z, "", newZoneStatus, 0, errorMessage)

\* fault: lines 216-222 left out (ARMED_AWAY is installed without the exit delay)
setArmingMode2_direct(W, i) ==
    Return([W EXCEPT !.armingMode[i.z] = i.a],
           <<PostUpdate(i.z, armingModeItem(i.z), Str(i.a))>>
           \o Hook("onArmingModeChange", i.z, i.a, i.b, "")
           \o <<SetZoneStatus(i.z, NORMAL, "")>>)

\* fault: line 233 left out (the status is not reset when a mode is installed)
setArmingMode2_noReset(W, i) ==
    IF i.a = ARMED_AWAY /\ W.zoneStatus[i.z] # None /\ W.zoneStatus[i.z] # ARMING
    THEN Return(W, <<SetZoneStatus(i.z, ARMING, ""), PostUpdate(i.z, ExitTimer(i.z), "ON")>>)
    ELSE Return([W EXCEPT !.armingMode[i.z] = i.a],
                <<PostUpdate(i.z, armingModeItem(i.z), Str(i.a))>>
                \o Hook("onArmingModeChange", i.z, i.a, i.b, ""))

\* lines 216-233: the exit delay of ARMED_AWAY, or the mode is installed
setArmingMode2(W, i) ==
    IF i.a = ARMED_AWAY /\ W.zoneStatus[i.z] # None /\ W.zoneStatus[i.z] # ARMING
    THEN Return(W, <<SetZoneStatus(i.z, ARMING, ""), PostUpdate(i.z, ExitTimer(i.z), "ON")>>)
    ELSE Return([W EXCEPT !.armingMode[i.z] = i.a],
                <<PostUpdate(i.z, armingModeItem(i.z), Str(i.a))>>
                \o Hook("onArmingModeChange", i.z, i.a, i.b, "")
                \o <<SetZoneStatus(i.z, NORMAL, "")>>)

\* fault: lines 196-197 left out (any value is taken for an arming mode)
setArmingMode_unchecked(W, i) ==
    Return(W, <<Ins("setArmingMode2", i.z, "", i.a, W.armingMode[i.z], "")>>)

\* fault: lines 209-212 left out (a rejected arming does not show the ERROR)
setArmingMode_noError(W, i) ==
    LET oldArmingMode == W.armingMode[i.z]
        install == <<Ins("setArmingMode2", i.z, "", i.a, oldArmingMode, "")>>
    IN IF i.a \notin ARMINGMODE
       THEN Raise(W, "Trying to set an invalid arming mode")
       ELSE IF /\ i.a \in {ARMED_AWAY, ARMED_HOME}
               /\ W.zoneStatus[i.z] # ARMING
               /\ W.zoneStatus[i.z] # None
               /\ W.openSections[i.z] > 0
            THEN Return(W,
                     Hook("onArmingWithOpenSensors", i.z, i.a, 0, "")
                     \o (IF ~canArmWithTrippedSensors(i.z)
                         THEN <<SetZoneStatus(i.z, NORMAL, "")>>
                         ELSE install))
            ELSE Return(W, install)

\* fault: line 204 does not look at the status ARMING (the open sensors are
\* looked at also when the exit delay is running)
setArmingMode_recheck(W, i) ==
    LET oldArmingMode == W.armingMode[i.z]
        install == <<Ins("setArmingMode2", i.z, "", i.a, oldArmingMode, "")>>
    IN IF i.a \notin ARMINGMODE
       THEN Raise(W, "Trying to set an invalid arming mode")
       ELSE IF /\ i.a \in {ARMED_AWAY, ARMED_HOME}
               /\ W.zoneStatus[i.z] # None
               /\ W.openSections[i.z] > 0
            THEN Return(W,
                     Hook("onArmingWithOpenSensors", i.z, i.a, 0, "")
                     \o (IF ~canArmWithTrippedSensors(i.z)
                         THEN <<SetZoneStatus(i.z, ERROR, "Arming is not allowed with open sensors"),
                                Call("sleep", i.z),
                                SetZoneStatus(i.z, NORMAL, "")>>
                         ELSE install))
            ELSE Return(W, install)

\* fault: line 213 left out (a rejected arming leaves the status ERROR)
setArmingMode_stuck(W, i) ==
    LET oldArmingMode == W.armingMode[i.z]
        install == <<Ins("setArmingMode2", i.z, "", i.a, oldArmingMode, "")>>
    IN IF i.a \notin ARMINGMODE
       THEN Raise(W, "Trying to set an invalid arming mode")
       ELSE IF /\ i.a \in {ARMED_AWAY, ARMED_HOME}
               /\ W.zoneStatus[i.z] # ARMING
               /\ W.zoneStatus[i.z] # None
               /\ W.openSections[i.z] > 0
            THEN Return(W,
                     Hook("onArmingWithOpenSensors", i.z, i.a, 0, "")
                     \o (IF ~canArmWithTrippedSensors(i.z)
                         THEN <<SetZoneStatus(i.z, ERROR, "Arming is not allowed with open sensors"),
                                Call("sleep", i.z)>>
                         ELSE install))
            ELSE Return(W, install)

\* lines 190-214: the mode is validated, then the open sensors are looked at
setArmingMode(W, i) ==
    LET oldArmingMode == W.armingMode[i.z]
        install == <<Ins("setArmingMode2", i.z, "", i.a, oldArmingMode, "")>>
    IN IF i.a \notin ARMINGMODE
       THEN Raise(W, "Trying to set an invalid arming mode")
       ELSE IF /\ i.a \in {ARMED_AWAY, ARMED_HOME}
               /\ W.zoneStatus[i.z] # ARMING
               /\ W.zoneStatus[i.z] # None
               /\ W.openSections[i.z] > 0
            THEN Return(W,
                     Hook("onArmingWithOpenSensors", i.z, i.a, 0, "")
                     \o (IF ~canArmWithTrippedSensors(i.z)
                         THEN <<SetZoneStatus(i.z, ERROR, "Arming is not allowed with open sensors"),
                                Call("sleep", i.z),
                                SetZoneStatus(i.z, NORMAL, "")>>
                         ELSE install))
            ELSE Return(W, install)

SetArmingMode(z, newArmingMode) == Ins("setArmingMode", z, "", newArmingMode, 0, "")

\* time.sleep(1)
sleep(W, i) == Return(W, <<>>)

\* fault: line 288 does not look at the sensor class
getOpenSensors_anyClass(W, z, armingModeGiven, isArming) ==
    LET armingMode_ == IF armingModeGiven = None THEN W.armingMode[z] ELSE armingModeGiven
        Open(s) == /\ ~(~isEnabled(s) \/ ~isActive(W, s) \/ (isArming /\ ~armWarn(s)))
                   /\ armingMode_ \in {ARMED_AWAY, ARMED_HOME}
    IN IF armingMode_ = DISARMED THEN <<>> ELSE SelectSeq(ZoneSensors(z), Open)

\* getOpenSensors(mins = 0, armingMode = armingModeGiven, isArming = isArming)
getOpenSensors(W, z, armingModeGiven, isArming) ==
    LET armingMode_ == IF armingModeGiven = None THEN W.armingMode[z] ELSE armingModeGiven
        Open(s) == /\ ~(~isEnabled(s) \/ ~isActive(W, s) \/ (isArming /\ ~armWarn(s)))
                   /\ \/ armingMode_ = ARMED_AWAY
                      \/ (armingMode_ = ARMED_HOME /\ sensorClass(s) # "B")
    IN IF armingMode_ = DISARMED THEN <<>> ELSE SelectSeq(ZoneSensors(z), Open)

\* fault: each switch toggles its own mode only (an armed zone is disarmed
\* by the switch of its mode alone)
onToggleSwitch_ownMode(W, i) ==
    LET own == IF i.s = armAwayToggleSwitch(i.z) THEN ARMED_AWAY ELSE ARMED_HOME
    IN Return(W, <<SetArmingMode(i.z, IF W.armingMode[i.z] = own THEN DISARMED ELSE own)>>)

onToggleSwitch(W, i) ==
    LET newArmingMode ==
            IF i.s = armAwayToggleSwitch(i.z)
            THEN (IF W.armingMode[i.z] = DISARMED THEN ARMED_AWAY ELSE DISARMED)
            ELSE (IF W.armingMode[i.z] = DISARMED THEN ARMED_HOME ELSE DISARMED)
    IN Return(W, <<SetArmingMode(i.z, newArmingMode)>>)

\* fault: lines 326-327 left out (the zone status is not looked at)
onEntryTimer_unchecked(W, i) ==
    Return(W, <<SetZoneStatus(i.z, ALERT, "")>>
              \o (IF ~alarmTestMode THEN SendCommandAll(i.z, "ON") ELSE <<>>)
              \o <<PostUpdate(i.z, AlertMaxTimer(i.z), "ON")>>)

\* fault: lines 331-334 left out (the alert devices stay as they are)
onEntryTimer_silent(W, i) ==
    IF W.zoneStatus[i.z] # TRIPPED
    THEN Raise(W, "Entry Timer timed out but zone status is not tripped")
    ELSE Return(W, <<SetZoneStatus(i.z, ALERT, ""), PostUpdate(i.z, AlertMaxTimer(i.z), "ON")>>)

\* fault: line 331 left out (the alert devices are switched on in test mode too)
onEntryTimer_noTestMode(W, i) ==
    IF W.zoneStatus[i.z] # TRIPPED
    THEN Raise(W, "Entry Timer timed out but zone status is not tripped")
    ELSE Return(W, <<SetZoneStatus(i.z, ALERT, "")>>
                   \o SendCommandAll(i.z, "ON")
                   \o <<PostUpdate(i.z, AlertMaxTimer(i.z), "ON")>>)

onEntryTimer(W, i) ==
    IF W.zoneStatus[i.z] # TRIPPED
    THEN Raise(W, "Entry Timer timed out but zone status is not tripped")
    ELSE Return(W, <<SetZoneStatus(i.z, ALERT, "")>>
                   \o (IF ~alarmTestMode THEN SendCommandAll(i.z, "ON") ELSE <<>>)
                   \o <<PostUpdate(i.z, AlertMaxTimer(i.z), "ON")>>)

\* fault: the status is reset before the mode is asked for (the expiry
\* goes through the open-sensor check and the exit delay again)
onExitTimer_reset(W, i) == Return(W, <<SetZoneStatus(i.z, NORMAL, ""), SetArmingMode(i.z, ARMED_AWAY)>>)

onExitTimer(W, i) == Return(W, <<SetArmingMode(i.z, ARMED_AWAY)>>)

\* fault: lines 351-352 left out (the alert devices are left on)
onAlertMaxTimer_keep(W, i) == Return(W, <<>>)

onAlertMaxTimer(W, i) == Return(W, SendCommandAll(i.z, "OFF"))

\* lines 360-363 and 371: the list getNagSensors builds and returns
nagSensorsOf(W, z) ==
    LET IsNag(s) == isEnabled(s) /\ isActive(W, s) /\ nag(s) /\ W.armingMode[z] = DISARMED
    IN SelectSeq(ZoneSensors(z), IsNag)

\* fault: the arming mode is not looked at in line 362
getNagSensors_armed(W, i) ==
    LET IsNag(s) == isEnabled(s) /\ isActive(W, s) /\ nag(s)
        nagSensors == SelectSeq(ZoneSensors(i.z), IsNag)
    IN IF Len(nagSensors) = 0
       THEN Return(W, <<PostUpdate(i.z, NagTimer(i.z), "OFF")>>)
       ELSE Return(W, <<PostUpdate(i.z, NagTimer(i.z), "ON")>>
                      \o (IF i.a = 1 /\ "onNagTimer" \in customHooks
                          THEN <<[Ins("custom", i.z, "onNagTimer", 0, 0, "") EXCEPT !.l = nagSensors]>>
                          ELSE <<>>))

\* fault: timerTimedOut is not looked at in line 368 (onNagTimer is called
\* for a sensor event too)
getNagSensors_always(W, i) ==
    LET nagSensors == nagSensorsOf(W, i.z)
    IN IF Len(nagSensors) = 0
       THEN Return(W, <<PostUpdate(i.z, NagTimer(i.z), "OFF")>>)
       ELSE Return(W, <<PostUpdate(i.z, NagTimer(i.z), "ON")>>
                      \o (IF "onNagTimer" \in customHooks
                          THEN <<[Ins("custom", i.z, "onNagTimer", 0, 0, "") EXCEPT !.l = nagSensors]>>
                          ELSE <<>>))

getNagSensors(W, i) ==
    LET nagSensors == nagSensorsOf(W, i.z)
    IN IF Len(nagSensors) = 0
       THEN Return(W, <<PostUpdate(i.z, NagTimer(i.z), "OFF")>>)
       ELSE Return(W, <<PostUpdate(i.z, NagTimer(i.z), "ON")>>
                      \o (IF i.a = 1 /\ "onNagTimer" \in customHooks
                          THEN <<[Ins("custom", i.z, "onNagTimer", 0, 0, "") EXCEPT !.l = nagSensors]>>
                          ELSE <<>>))

GetNagSensors(z, timerTimedOut) == Ins("getNagSensors", z, "", IF timerTimedOut THEN 1 ELSE 0, 0, "")

\* fault: the motion group is not looked at in line 385
OpenSectionSensors_all(W, z) ==
    {j \in 1..Len(ZoneSensors(z)) : isEnabled(ZoneSensors(z)[j]) /\ isActive(W, ZoneSensors(z)[j])}

\* the sensors countOpenSections counts under the zone's arming mode
OpenSectionSensors(W, z) ==
    {j \in 1..Len(ZoneSensors(z)) :
        LET s == ZoneSensors(z)[j]
        IN /\ isEnabled(s)
           /\ isActive(W, s)
           /\ ("G_Motion" \notin groupNames(s) \/ W.armingMode[z] = ARMED_AWAY)}

\* line 381: self.openSections = 0
countOpenSections(W, i) ==
    Return([W EXCEPT !.openSections[i.z] = 0], <<Call("countOpenSections2", i.z)>>)

\* lines 382-390: the loop, and the count is written to the item
countOpenSections2(W, i) ==
    LET n == Cardinality(OpenSectionSensors(W, i.z))
    IN Return([W EXCEPT !.openSections[i.z] = n],
              <<PostUpdate(i.z, OpenSectionsItem(i.z), Str(n))>>)

\* fault: line 396 left out (the arming mode is not looked at: a sensor
\* trips a zone that is DISARMED)
onSensorChange_disarmed(W, i) ==
    IF \/ W.zoneStatus[i.z] # NORMAL
       \/ (W.armingMode[i.z] = ARMED_HOME /\ sensorClass(i.s) = "B")
       \/ getItemValue(W, ExitTimer(i.z), "OFF") = "ON"
    THEN Return(W, <<>>)
    ELSE Return(W, <<SetZoneStatus(i.z, TRIPPED, ""), PostUpdate(i.z, EntryTimer(i.z), "ON")>>)

\* fault: line 405 left out (the entry timer is not started)
onSensorChange_noTimer(W, i) ==
    IF \/ W.armingMode[i.z] \notin {ARMED_HOME, ARMED_AWAY}
       \/ W.zoneStatus[i.z] # NORMAL
       \/ (W.armingMode[i.z] = ARMED_HOME /\ sensorClass(i.s) = "B")
       \/ getItemValue(W, ExitTimer(i.z), "OFF") = "ON"
    THEN Return(W, <<>>)
    ELSE Return(W, <<SetZoneStatus(i.z, TRIPPED, "")>>)

\* fault: line 398 left out (a class-B sensor trips a zone that is ARMED_HOME)
onSensorChange_anyClass(W, i) ==
    IF \/ W.armingMode[i.z] \notin {ARMED_HOME, ARMED_AWAY}
       \/ W.zoneStatus[i.z] # NORMAL
       \/ getItemValue(W, ExitTimer(i.z), "OFF") = "ON"
    THEN Return(W, <<>>)
    ELSE Return(W, <<SetZoneStatus(i.z, TRIPPED, ""), PostUpdate(i.z, EntryTimer(i.z), "ON")>>)

onSensorChange(W, i) ==
    IF \/ W.armingMode[i.z] \notin {ARMED_HOME, ARMED_AWAY}
       \/ W.zoneStatus[i.z] # NORMAL
       \/ (W.armingMode[i.z] = ARMED_HOME /\ sensorClass(i.s) = "B")
       \/ getItemValue(W, ExitTimer(i.z), "OFF") = "ON"
    THEN Return(W, <<>>)
    ELSE Return(W, <<SetZoneStatus(i.z, TRIPPED, ""), PostUpdate(i.z, EntryTimer(i.z), "ON")>>)

(***************************************************************************)
(* IdeAlarm                                                                *)
(***************************************************************************)
\* lines 553-564: the event is of a sensor of zone i.z
execute_sensor(W, i) ==
    IF isEnabled(i.s)
    THEN Return(W, (IF isActive(W, i.s) THEN <<Ins("onSensorChange", i.z, i.s, 0, 0, "")>> ELSE <<>>)
                   \o <<GetNagSensors(i.z, FALSE), Call("countOpenSections", i.z)>>)
    ELSE Return(W, <<>>)

\* fault: a toggle switch is not compared with those of the zone (line 537):
\* the first zone of the loop takes the event of any toggle switch
execute_anyToggle(W, i) ==
    LET z == i.z
        next == <<Ins("execute", z + 1, i.s, 0, 0, "")>>
    IN IF z \notin Zones THEN Return(W, <<>>)
       ELSE IF i.s \in ToggleItems
            THEN Return(W, <<Ins("onToggleSwitch", z, i.s, 0, 0, "")>>)
       ELSE IF i.s = EntryTimer(z) THEN Return(W, <<Call("onEntryTimer", z)>>)
       ELSE IF i.s = ExitTimer(z) THEN Return(W, <<Call("onExitTimer", z)>>)
       ELSE IF i.s = NagTimer(z) THEN Return(W, <<GetNagSensors(z, TRUE)>>)
       ELSE IF i.s = AlertMaxTimer(z) THEN Return(W, <<Call("onAlertMaxTimer", z)>>)
       ELSE IF \E j \in 1..Len(ZoneSensors(z)) : ZoneSensors(z)[j] = i.s
            THEN Return(W, <<Ins("execute_sensor", z, i.s, 0, 0, "")>> \o next)
       ELSE Return(W, next)

\* one round of the loop over the zones, for zone i.z; i.s is event.itemName
execute(W, i) ==
    LET z == i.z
        next == <<Ins("execute", z + 1, i.s, 0, 0, "")>>
    IN IF z \notin Zones THEN Return(W, <<>>)
       ELSE IF i.s \in {armAwayToggleSwitch(z), armHomeToggleSwitch(z)}
            THEN Return(W, <<Ins("onToggleSwitch", z, i.s, 0, 0, "")>>)
       ELSE IF i.s = EntryTimer(z) THEN Return(W, <<Call("onEntryTimer", z)>>)
       ELSE IF i.s = ExitTimer(z) THEN Return(W, <<Call("onExitTimer", z)>>)
       ELSE IF i.s = NagTimer(z) THEN Return(W, <<GetNagSensors(z, TRUE)>>)
       ELSE IF i.s = AlertMaxTimer(z) THEN Return(W, <<Call("onAlertMaxTimer", z)>>)
       ELSE IF \E j \in 1..Len(ZoneSensors(z)) : ZoneSensors(z)[j] = i.s
            THEN Return(W, <<Ins("execute_sensor", z, i.s, 0, 0, "")>> \o next)
       ELSE Return(W, next)

Execute(itemName) == Ins("execute", 1, itemName, 0, 0, "")

(***************************************************************************)
(* One instruction                                                         *)
(***************************************************************************)
Exec(W, i) ==
    CASE i.op = "execute" -> execute(W, i)
      [] i.op = "execute_sensor" -> execute_sensor(W, i)
      [] i.op = "onToggleSwitch" -> onToggleSwitch(W, i)
      [] i.op = "onEntryTimer" -> onEntryTimer(W, i)
      [] i.op = "onExitTimer" -> onExitTimer(W, i)
      [] i.op = "onAlertMaxTimer" -> onAlertMaxTimer(W, i)
      [] i.op = "onSensorChange" -> onSensorChange(W, i)
      [] i.op = "getNagSensors" -> getNagSensors(W, i)
      [] i.op = "countOpenSections" -> countOpenSections(W, i)
      [] i.op = "countOpenSections2" -> countOpenSections2(W, i)
      [] i.op = "setArmingMode" -> setArmingMode(W, i)
      [] i.op = "setArmingMode2" -> setArmingMode2(W, i)
      [] i.op = "setZoneStatus" -> setZoneStatus(W, i)
      [] i.op = "sleep" -> sleep(W, i)
      [] i.op = "post_update_if_different" -> post_update_if_different(W, i)
      [] i.op = "postUpdate" -> postUpdate(W, i)
      [] i.op = "custom" -> custom(W, i)

\* the logs start anew with a handler
Fresh(W) == [W EXCEPT !.hooks = <<>>, !.sent = <<>>, !.raised = ""]

(***************************************************************************)
(* Construction                                                            *)
(***************************************************************************)
\* fault: line 163 sets the status NORMAL (the zone is built as one in use)
IdeAlarmZone_init_inUse(W, i) ==
    Return([W EXCEPT !.armingMode[i.z] = None, !.zoneStatus[i.z] = NORMAL],
           <<Call("countOpenSections", i.z),
             SetArmingMode(i.z, getItemIntValue(W, armingModeItem(i.z), DISARMED))>>)

\* IdeAlarmZone.__init__, lines 162-181
IdeAlarmZone_init(W, i) ==
    Return([W EXCEPT !.armingMode[i.z] = None, !.zoneStatus[i.z] = None],
           <<Call("countOpenSections", i.z),
             SetArmingMode(i.z, getItemIntValue(W, armingModeItem(i.z), DISARMED))>>)

\* IdeAlarm.__init__, lines 429-435
IdeAlarm_init(W, i) ==
    Return(W, <<Call("IdeAlarmZone_init", 1), Call("IdeAlarmZone_init", 2),
                GetNagSensors(1, FALSE), GetNagSensors(2, FALSE)>>)

\* a call of the constructors, or an instruction of the handlers
Step(W, i) ==
    CASE i.op = "IdeAlarm_init" -> IdeAlarm_init(W, i)
      [] i.op = "IdeAlarmZone_init" -> IdeAlarmZone_init(W, i)
      [] OTHER -> Exec(W, i)

\* a call run to its end: the instructions are made in order, each on the
\* state the one before left; an error ends the run
RECURSIVE Run(_, _)
Run(W, stack) ==
    IF stack = <<>> THEN W
    ELSE CHOOSE w \in {IF r.abort THEN r.w ELSE Run(r.w, r.k \o Tail(stack)) :
                          r \in {Step(W, Head(stack))}} : TRUE

\* the items before the script is loaded: the sensors as they are, the arming
\* mode items as persisted (NULL if never set), every other item at boot
ItemsAtLoad(sensors, modes, boot) ==
    [n \in ItemNames |->
        IF n \in SensorNames THEN sensors[n]
        ELSE IF \E z \in Zones : n = armingModeItem(z)
             THEN modes[CHOOSE z \in Zones : n = armingModeItem(z)]
        ELSE IF n \in SwitchItems THEN boot
        ELSE "NULL"]

NoThreads == [t \in {1, 2} |-> <<>>]

NoScenario == [z |-> 0, n |-> 0]

NoAnswer == [call |-> "", zone |-> "", value |-> None, raised |-> ""]

\* the state after "ideAlarm = IdeAlarm()" with the given sensors of the zones
Loaded(sensorsOfZones) ==
    /\ zoneSensors = sensorsOfZones
    /\ alarmTestMode \in BOOLEAN
    /\ enabled \in [SensorNames -> BOOLEAN]
    /\ \A s \in SensorNames \ MaybeDisabled : enabled[s]
    /\ pending = {}
    /\ reported = [s \in SensorNames |-> <<>>]
    /\ answer = NoAnswer
    /\ threads = NoThreads
    /\ batch = <<>>
    /\ snap = <<>>
    /\ prelude = 0
    /\ scenario = NoScenario
    /\ \E sensors \in [SensorNames -> {"ON", "OFF", "OPEN", "CLOSED"}],
          modes \in [Zones -> {"NULL", "0", "1", "2"}],
          boot \in {"NULL", "ON"} :
         /\ \A s \in SensorNames : sensors[s] \in SensorStates(s)
         /\ LET atLoad == [armingMode |-> [z \in Zones |-> None],
                           zoneStatus |-> [z \in Zones |-> None],
                           openSections |-> [z \in Zones |-> 0],
                           item |-> ItemsAtLoad(sensors, modes, boot),
                           hooks |-> <<>>, sent |-> <<>>, raised |-> ""]
                w == Run(atLoad, <<Call("IdeAlarm_init", 0)>>)
            IN /\ armingMode = w.armingMode
               /\ zoneStatus = w.zoneStatus
               /\ openSections = w.openSections
               /\ item = w.item
               /\ hooks = <<>>
               /\ raised = w.raised

Init == Loaded(ExclusiveSensors)

(***************************************************************************)
(* The platform: sensors change, timers expire, events are raised          *)
(***************************************************************************)
Raises(e, max) ==
    /\ Cardinality(pending \cup {e}) <= max
    /\ pending' = pending \cup {e}

\* a sensor changes its state: "Item <sensor> changed"
SensorChange(s, max) ==
    /\ threads = NoThreads /\ batch = <<>>
    /\ item' = [item EXCEPT ![s] = CHOOSE v \in SensorStates(s) : v # item[s]]
    /\ Raises(s, max)
    /\ raised' = ""
    /\ UNCHANGED <<armingMode, zoneStatus, openSections, enabled, alarmTestMode, zoneSensors,
                   threads, batch, snap, hooks, scenario>>

\* a running timer item expires: it receives command OFF
TimerExpire(t, max) ==
    /\ threads = NoThreads /\ batch = <<>>
    /\ item[t] = "ON"
    /\ item' = [item EXCEPT ![t] = "OFF"]
    /\ Raises(t, max)
    /\ raised' = ""
    /\ UNCHANGED <<armingMode, zoneStatus, openSections, enabled, alarmTestMode, zoneSensors,
                   threads, batch, snap, hooks, scenario>>

(***************************************************************************)
(* The sensor / entry timer / toggle sequence of one zone                  *)
(***************************************************************************)
SensorZone(s) == CHOOSE z \in Zones : \E j \in 1..Len(ZoneSensors(z)) : ZoneSensors(z)[j] = s

ScenarioAfter(e) ==
    IF /\ e \in SensorNames
       /\ armingMode[SensorZone(e)] = ARMED_AWAY
       /\ zoneStatus[SensorZone(e)] = NORMAL
       /\ enabled[e] /\ sensorClass(e) = "A" /\ isActive(World, e)
    THEN [z |-> SensorZone(e), n |-> 1]
    ELSE IF scenario.n = 1 /\ e = EntryTimer(scenario.z)
    THEN [z |-> scenario.z, n |-> 2]
    ELSE IF scenario.n = 2 /\ e \in {armAwayToggleSwitch(scenario.z), armHomeToggleSwitch(scenario.z)}
    THEN [z |-> scenario.z, n |-> 3]
    ELSE NoScenario

(***************************************************************************)
(* The rule: execute(event), run to its end                                *)
(***************************************************************************)
\* what a handler leaves: the objects' fields and the items
Becomes(w) ==
    /\ armingMode' = w.armingMode
    /\ zoneStatus' = w.zoneStatus
    /\ openSections' = w.openSections
    /\ item' = w.item
    /\ raised' = w.raised

\* execute(event) from the present state, with what it logged
Handled(e) == Run(Fresh(World), <<Execute(e)>>)

Handle(e) ==
    /\ threads = NoThreads /\ batch = <<>>
    /\ Becomes(Handled(e))
    /\ scenario' = ScenarioAfter(e)
    /\ UNCHANGED <<enabled, alarmTestMode, zoneSensors, threads, batch, snap, hooks>>

\* an event in flight is handled
Deliver(e) ==
    /\ e \in pending
    /\ pending' = pending \ {e}
    /\ Handle(e)

\* a toggle switch changed to ON
Toggle(t) ==
    /\ Handle(t)
    /\ UNCHANGED pending

\* another script calls IdeAlarmZone.setArmingMode
CallSetArmingMode(z, newArmingMode) ==
    /\ threads = NoThreads /\ batch = <<>>
    /\ Becomes(Run(Fresh(World), <<SetArmingMode(z, newArmingMode)>>))
    /\ scenario' = NoScenario
    /\ UNCHANGED <<enabled, alarmTestMode, zoneSensors, pending, reported, answer, threads, batch, snap, prelude, hooks>>

Next ==
    /\ UNCHANGED <<prelude, reported, answer>>
    /\ \/ \E s \in SensorNames : SensorChange(s, MaxPending)
       \/ \E t \in AllTimerItems : TimerExpire(t, MaxPending)
       \/ \E e \in SensorNames \cup AllTimerItems : Deliver(e)
       \/ \E t \in ToggleItems : Toggle(t)

Spec == Init /\ [][Next]_vars

NextApi ==
    \/ Next
    \/ \E z \in Zones, m \in 0..MaxRequested : CallSetArmingMode(z, m)

InitApi ==
    /\ Init
    /\ ~alarmTestMode
    /\ \A s \in SensorNames : enabled[s]

SpecApi == InitApi /\ [][NextApi]_vars

(***************************************************************************)
(* Two rule threads: the events of zone 1, two of them handled at once.    *)
(* Nothing in the source keeps two runs of execute apart, so the threads   *)
(* take turns instruction by instruction.                                  *)
(***************************************************************************)
\* the zone that has two sensors
ConcZone == CHOOSE z \in Zones : Len(ExclusiveSensors[z]) > 1

ConcEvents == {armAwayToggleSwitch(ConcZone), armHomeToggleSwitch(ConcZone)}

InitConc ==
    /\ Init
    /\ ~alarmTestMode
    /\ \A s \in SensorNames : enabled[s]
    /\ armingMode[2] = DISARMED /\ ~isActive(World, "BackLock")

(***************************************************************************)
(* The rule with time passing, for the events of the zone with two         *)
(* sensors: a timer that runs expires, and the rule engine handles every   *)
(* event it was triggered with.                                            *)
(***************************************************************************)
NextFair ==
    /\ UNCHANGED <<prelude, reported, answer>>
    /\ \/ \E j \in 1..Len(ZoneSensors(ConcZone)) : SensorChange(ZoneSensors(ConcZone)[j], MaxPending)
       \/ \E t \in TimerItems(ConcZone) : TimerExpire(t, MaxPending)
       \/ \E e \in pending : Deliver(e)
       \/ \E t \in ConcEvents : Toggle(t)

Fairness ==
    /\ SF_vars(UNCHANGED <<prelude, reported, answer>> /\ TimerExpire(AlertMaxTimer(ConcZone), MaxPending))
    /\ \A e \in SensorNames \cup TimerItems(ConcZone) : WF_vars(UNCHANGED <<prelude, reported, answer>> /\ Deliver(e))

SpecFair == InitConc /\ [][NextFair]_vars /\ Fairness

(***************************************************************************)
(* The rule with a queue: the events of the zone with two sensors, raised  *)
(* while the rule engine is busy and handled later, one at a time.         *)
(***************************************************************************)
NextQueue ==
    /\ UNCHANGED <<prelude, reported, answer>>
    /\ \/ \E j \in 1..Len(ZoneSensors(ConcZone)) : SensorChange(ZoneSensors(ConcZone)[j], MaxQueue)
       \/ \E t \in TimerItems(ConcZone) : TimerExpire(t, MaxQueue)
       \/ \E e \in pending : Deliver(e)
       \/ \E t \in ConcEvents : Toggle(t)

SpecQueue == InitConc /\ [][NextQueue]_vars

\* every timer that runs expires, and every event raised is handled
FairQueue ==
    /\ \A t \in TimerItems(ConcZone) :
          SF_vars(UNCHANGED <<prelude, reported, answer>> /\ TimerExpire(t, MaxQueue))
    /\ \A e \in SensorNames \cup TimerItems(ConcZone) :
          WF_vars(UNCHANGED <<prelude, reported, answer>> /\ Deliver(e))

SpecQueueFair == InitConc /\ [][NextQueue]_vars /\ FairQueue

(***************************************************************************)
(* The rule with the state each sensor event was raised with: the events   *)
(* of the zone with two sensors, those of one sensor handled in the order  *)
(* they were raised in.                                                    *)
(***************************************************************************)
\* a sensor changes its state, and the event carries the new state
Report(s) ==
    /\ Len(reported[s]) < MaxReported
    /\ SensorChange(s, MaxPending)
    /\ reported' = [reported EXCEPT ![s] = Append(@, item'[s])]

\* the oldest event in flight of e is handled
DeliverReported(e) ==
    /\ e \in pending
    /\ Handle(e)
    /\ IF e \in SensorNames
       THEN /\ reported' = [reported EXCEPT ![e] = Tail(@)]
            /\ pending' = IF Len(reported[e]) > 1 THEN pending ELSE pending \ {e}
       ELSE /\ pending' = pending \ {e}
            /\ UNCHANGED reported

NextEvent ==
    /\ UNCHANGED <<prelude, answer>>
    /\ \/ \E j \in 1..Len(ZoneSensors(ConcZone)) : Report(ZoneSensors(ConcZone)[j])
       \/ \E t \in TimerItems(ConcZone) : TimerExpire(t, MaxPending) /\ UNCHANGED reported
       \/ \E e \in SensorNames \cup TimerItems(ConcZone) : DeliverReported(e)
       \/ \E t \in ConcEvents : Toggle(t) /\ UNCHANGED reported

SpecEvent == InitConc /\ [][NextEvent]_vars

\* isActive of sensor s for an item in the given state
ActiveState(s, state) == isActive([World EXCEPT !.item[s] = state], s)

\* C21: when the event of an enabled sensor of an armed zone in status NORMAL
\* is handled (the sensor not of class B under ARMED_HOME, the exit timer
\* not running) and the event reports an active state, the zone becomes
\* TRIPPED and its entry timer is ON, whatever the device reads by then.
C21_ReportedState ==
    [][\A z \in Zones : \A j \in 1..Len(ZoneSensors(z)) :
          LET s == ZoneSensors(z)[j]
          IN /\ DeliverReported(s)
             /\ ActiveState(s, Head(reported[s]))
             /\ enabled[s]
             /\ armingMode[z] \in {ARMED_HOME, ARMED_AWAY}
             /\ zoneStatus[z] = NORMAL
             /\ ~(armingMode[z] = ARMED_HOME /\ sensorClass(s) = "B")
             /\ item[ExitTimer(z)] # "ON"
             => zoneStatus'[z] = TRIPPED /\ item'[EntryTimer(z)] = "ON"]_vars

PreludeStep ==
    /\ prelude < MaxPrelude
    /\ prelude' = prelude + 1
    /\ UNCHANGED <<reported, answer>>
    /\ \/ \E j \in 1..Len(ZoneSensors(ConcZone)) : SensorChange(ZoneSensors(ConcZone)[j], MaxBatch)
       \/ \E t \in TimerItems(ConcZone) : TimerExpire(t, MaxBatch)
       \/ \E e \in pending : Deliver(e)
       \/ \E t \in ConcEvents : Toggle(t)

\* two events are handed to two threads at the same time
StartBatch(e1, e2) ==
    /\ threads = NoThreads /\ batch = <<>>
    /\ e1 # e2
    /\ {e1, e2} \subseteq pending \cup ConcEvents
    /\ pending' = pending \ {e1, e2}
    /\ threads' = [t \in {1, 2} |-> <<Execute(IF t = 1 THEN e1 ELSE e2)>>]
    /\ batch' = <<e1, e2>>
    /\ snap' = <<Fresh(World)>>
    /\ hooks' = <<>> /\ raised' = ""
    /\ UNCHANGED <<armingMode, zoneStatus, openSections, item, enabled, alarmTestMode, zoneSensors,
                   prelude, reported, answer, scenario>>

\* thread t makes its next instruction
ThreadStep(t) ==
    /\ threads[t] # <<>>
    /\ \E r \in {Step(World, Head(threads[t]))} :
         /\ Becomes(r.w)
         /\ hooks' = r.w.hooks
         /\ threads' = [threads EXCEPT ![t] = IF r.abort THEN <<>> ELSE r.k \o Tail(@)]
    /\ UNCHANGED <<enabled, alarmTestMode, zoneSensors, pending, reported, answer, batch, snap, prelude, scenario>>

NextConc ==
    \/ PreludeStep
    \/ \E es \in SUBSET (pending \cup ConcEvents) :
          /\ Cardinality(es) = 2
          /\ \E e1 \in {CHOOSE e \in es : TRUE} : StartBatch(e1, CHOOSE e \in es : e # e1)
    \/ \E t \in {1, 2} : ThreadStep(t)

SpecConc == InitConc /\ [][NextConc]_vars

(***************************************************************************)
(* Properties                                                              *)
(***************************************************************************)
AlertsOff(z) == \A j \in 1..Len(alertDevices(z)) : item[alertDevices(z)[j]] = "OFF"

\* the new statuses onZoneStatusChange was called with for zone z, in order
Statuses(log, z) ==
    LET OfZone(c) == c.h = "onZoneStatusChange" /\ c.z = z
        calls == SelectSeq(log, OfZone)
    IN [j \in 1..Len(calls) |-> calls[j].a]

Done == batch # <<>> /\ threads = NoThreads

\* the arming mode, status, timers and alert devices of zone z in w
ZoneState(w, z) ==
    [armingMode |-> w.armingMode[z], zoneStatus |-> w.zoneStatus[z],
     timers |-> [t \in TimerItems(z) |-> w.item[t]],
     alerts |-> [j \in 1..Len(alertDevices(z)) |-> w.item[alertDevices(z)[j]]]]

\* the two handlers one after the other, from the state the threads began in
Serial(e1, e2) == Run(Fresh(Run(snap[1], <<Execute(e1)>>)), <<Execute(e2)>>)

\* C2: when two events of a zone are handled at the same time, the zone's
\* arming mode, status, timers and alert devices end as they do when the
\* two handlers run one after the other, in one of the two orders.
C2_Serializable ==
    Done => ZoneState(World, ConcZone) \in {ZoneState(Serial(batch[1], batch[2]), ConcZone),
                                           ZoneState(Serial(batch[2], batch[1]), ConcZone)}

\* the threads began with two sensor events of the armed zone in status NORMAL,
\* the exit timer not running, and a sensor of them active that trips the zone
TwoSensorEvents ==
    /\ batch # <<>>
    /\ \A j \in 1..2 : \E k \in 1..Len(ZoneSensors(ConcZone)) : batch[j] = ZoneSensors(ConcZone)[k]
    /\ snap[1].armingMode[ConcZone] \in {ARMED_HOME, ARMED_AWAY}
    /\ snap[1].zoneStatus[ConcZone] = NORMAL
    /\ snap[1].item[ExitTimer(ConcZone)] # "ON"
    /\ \E j \in 1..2 :
          /\ isActive(snap[1], batch[j])
          /\ ~(snap[1].armingMode[ConcZone] = ARMED_HOME /\ sensorClass(batch[j]) = "B")

\* both of the two sensors are active and trip the zone
TwoActivations ==
    /\ TwoSensorEvents
    /\ \A j \in 1..2 :
          /\ isActive(snap[1], batch[j])
          /\ ~(snap[1].armingMode[ConcZone] = ARMED_HOME /\ sensorClass(batch[j]) = "B")

\* the calls of onZoneStatusChange that report TRIPPED for the zone
TrippedCalls == {j \in 1..Len(hooks) : /\ hooks[j].h = "onZoneStatusChange"
                                       /\ hooks[j].z = ConcZone
                                       /\ hooks[j].a = TRIPPED}

\* C3: after two sensor events of an armed zone in status NORMAL were
\* handled at the same time, the zone's status is TRIPPED and its entry
\* timer (one item) is ON.
C3_TrippedOnce ==
    Done /\ TwoSensorEvents =>
        /\ zoneStatus[ConcZone] = TRIPPED
        /\ item[EntryTimer(ConcZone)] = "ON"

\* both handlers went past the guard of onSensorChange, and the zone is TRIPPED
C3_Witness ==
    /\ Done /\ TwoSensorEvents
    /\ Cardinality(TrippedCalls) = 2
    /\ zoneStatus[ConcZone] = TRIPPED

\* C4: when two activation events of an armed zone in status NORMAL are
\* handled at the same time, onZoneStatusChange is called exactly once with
\* the new status TRIPPED, and then with the old status NORMAL.
C4_HookOnce ==
    Done /\ TwoActivations =>
        /\ Cardinality(TrippedCalls) = 1
        /\ \A j \in TrippedCalls : hooks[j].b = NORMAL

\* the away toggle of zone z is handled while the zone is DISARMED and its
\* status is defined and not ARMING
AwayRequest(z) ==
    /\ armingMode[z] = DISARMED
    /\ zoneStatus[z] \notin {None, ARMING}
    /\ Toggle(armAwayToggleSwitch(z))

\* C5, as the specification states it: a request for ARMED_AWAY on a
\* DISARMED zone whose status is defined and not ARMING leaves the arming
\* mode as it is, sets the status to ARMING and the exit timer to ON,
\* whatever the open sections and canArmWithTrippedSensors are.
C5_AlwaysArming ==
    [][\A z \in Zones :
          AwayRequest(z) =>
              /\ armingMode'[z] = armingMode[z]
              /\ zoneStatus'[z] = ARMING
              /\ item'[ExitTimer(z)] = "ON"]_vars

\* C5, as the code has it: the request leaves the arming mode as it is; it
\* sets the status to ARMING and the exit timer to ON, unless the zone has
\* open sections and canArmWithTrippedSensors is false: then the status goes
\* to ERROR and back to NORMAL and the exit timer is not started.
C5_AwayRequest ==
    [][\A z \in Zones :
          AwayRequest(z) =>
              /\ armingMode'[z] = armingMode[z]
              /\ IF openSections[z] > 0 /\ ~canArmWithTrippedSensors(z)
                 THEN /\ Statuses(Handled(armAwayToggleSwitch(z)).hooks, z) = <<ERROR, NORMAL>>
                      /\ zoneStatus'[z] = NORMAL
                      /\ item'[ExitTimer(z)] = "OFF"
                 ELSE /\ Statuses(Handled(armAwayToggleSwitch(z)).hooks, z) = <<ARMING>>
                      /\ zoneStatus'[z] = ARMING
                      /\ item'[ExitTimer(z)] = "ON"]_vars

\* a zone with open sections in its exit delay
C5_Witness ==
    \E z \in Zones :
        /\ armingMode[z] = DISARMED /\ zoneStatus[z] = ARMING
        /\ item[ExitTimer(z)] = "ON"
        /\ openSections[z] > 0

\* C6: the arming mode of a zone becomes ARMED_AWAY only in a step that
\* handles the expiry of the zone's exit timer.
C6_OnlyExitTimer ==
    [][\A z \in Zones :
          armingMode[z] # ARMED_AWAY /\ armingMode'[z] = ARMED_AWAY
              => Deliver(ExitTimer(z))]_vars

\* C7: the home toggle of a DISARMED zone that has open sections and must
\* not arm with them leaves the arming mode as it is and takes the status
\* to ERROR and then to NORMAL, whatever the status was.
C7_HomeRejected ==
    [][\A z \in Zones :
          /\ ~canArmWithTrippedSensors(z)
          /\ armingMode[z] = DISARMED
          /\ openSections[z] > 0
          /\ Toggle(armHomeToggleSwitch(z))
          => /\ armingMode'[z] = DISARMED
             /\ Statuses(Handled(armHomeToggleSwitch(z)).hooks, z) = <<ERROR, NORMAL>>
             /\ zoneStatus'[z] = NORMAL]_vars

\* C8: setArmingMode called with a value that is no arming mode raises the
\* error, leaves the arming modes, the statuses and all items (timers and
\* alert devices among them) as they are, and calls no hook.
C8_InvalidMode ==
    [][\A z \in Zones, m \in 0..MaxRequested :
          m \notin ARMINGMODE /\ CallSetArmingMode(z, m) =>
              /\ raised' = "Trying to set an invalid arming mode"
              /\ UNCHANGED <<armingMode, zoneStatus, openSections, item>>
              /\ Run(Fresh(World), <<SetArmingMode(z, m)>>).hooks = <<>>]_vars

\* the call has raised the error
C8_Witness == raised = "Trying to set an invalid arming mode"

\* C9: the expiry of an entry timer handled while the zone's status is not
\* TRIPPED raises the error, calls no hook and leaves the arming modes, the
\* statuses and all items of all zones as they are; the event is consumed
\* and the next handler starts from that state.
C9_EntryNotTripped ==
    [][\A z \in Zones :
          zoneStatus[z] # TRIPPED /\ Deliver(EntryTimer(z)) =>
              /\ raised' = "Entry Timer timed out but zone status is not tripped"
              /\ UNCHANGED <<armingMode, zoneStatus, openSections, item>>
              /\ Handled(EntryTimer(z)).hooks = <<>>
              /\ EntryTimer(z) \notin pending'
              /\ threads' = NoThreads]_vars

\* the handler has raised the error
C9_Witness == raised = "Entry Timer timed out but zone status is not tripped"

\* C10: with the test mode off, from ARMED_AWAY and NORMAL: the event of an
\* enabled, active class-A sensor gives TRIPPED and the entry timer ON; the
\* expiry of the entry timer then gives ALERT, the alert devices ON and the
\* alert-max timer ON; a toggle then gives DISARMED, NORMAL, the alert
\* devices OFF and all four timers OFF.
C10_EndToEnd ==
    [][~alarmTestMode /\ scenario' # scenario /\ scenario'.n > 0 =>
          LET z == scenario'.z
          IN CASE scenario'.n = 1 ->
                    /\ armingMode'[z] = ARMED_AWAY
                    /\ zoneStatus'[z] = TRIPPED
                    /\ item'[EntryTimer(z)] = "ON"
               [] scenario'.n = 2 ->
                    /\ armingMode'[z] = ARMED_AWAY
                    /\ zoneStatus'[z] = ALERT
                    /\ \A j \in 1..Len(alertDevices(z)) : item'[alertDevices(z)[j]] = "ON"
                    /\ item'[AlertMaxTimer(z)] = "ON"
               [] scenario'.n = 3 ->
                    /\ armingMode'[z] = DISARMED
                    /\ zoneStatus'[z] = NORMAL
                    /\ \A j \in 1..Len(alertDevices(z)) : item'[alertDevices(z)[j]] = "OFF"
                    /\ \A t \in TimerItems(z) : item'[t] = "OFF"]_vars

\* the three events have been handled, with the test mode off
C10_Witness ==
    /\ ~alarmTestMode
    /\ scenario.n = 3
    /\ armingMode[scenario.z] = DISARMED
    /\ AlertsOff(scenario.z)

\* what setArmingMode(newArmingMode) of zone z leaves, called in the present state
Requested(z, newArmingMode) == Run(Fresh(World), <<SetArmingMode(z, newArmingMode)>>)

\* C11: a toggle of either switch of an armed zone, whatever its status,
\* leaves the zone DISARMED and NORMAL; on a DISARMED zone the away switch
\* does what setArmingMode(ARMED_AWAY) does and the home switch what
\* setArmingMode(ARMED_HOME) does.
C11_Toggle ==
    [][\A z \in Zones :
          /\ armingMode[z] \in {ARMED_HOME, ARMED_AWAY}
             /\ (Toggle(armAwayToggleSwitch(z)) \/ Toggle(armHomeToggleSwitch(z)))
             => armingMode'[z] = DISARMED /\ zoneStatus'[z] = NORMAL
          /\ armingMode[z] = DISARMED /\ Toggle(armAwayToggleSwitch(z))
             => Becomes(Requested(z, ARMED_AWAY))
          /\ armingMode[z] = DISARMED /\ Toggle(armHomeToggleSwitch(z))
             => Becomes(Requested(z, ARMED_HOME))]_vars

\* a zone disarmed by a toggle while TRIPPED: the expiry of its entry timer
\* is still to be handled
C11_Witness ==
    \E z \in Zones :
        /\ EntryTimer(z) \in pending
        /\ armingMode[z] = DISARMED /\ zoneStatus[z] = NORMAL

\* what onSensorChange(sensor s) of zone z leaves, called in the present state
SensorChanged(z, s) == Run(Fresh(World), <<Ins("onSensorChange", z, s, 0, 0, "")>>)

\* C12: onSensorChange sets the status to TRIPPED and the entry timer to ON
\* when the zone is ARMED_HOME or ARMED_AWAY, its status is NORMAL, the
\* sensor is not a class-B sensor of a zone ARMED_HOME and the exit timer is
\* not ON; in every other case it changes no arming mode, no status and no
\* item and calls no hook.
C12_SensorChange ==
    \A z \in Zones : \A j \in 1..Len(ZoneSensors(z)) :
        LET s == ZoneSensors(z)[j]
            w == SensorChanged(z, s)
        IN IF /\ armingMode[z] \in {ARMED_HOME, ARMED_AWAY}
              /\ zoneStatus[z] = NORMAL
              /\ ~(armingMode[z] = ARMED_HOME /\ sensorClass(s) = "B")
              /\ item[ExitTimer(z)] # "ON"
           THEN /\ w.zoneStatus[z] = TRIPPED
                /\ w.item[EntryTimer(z)] = "ON"
                /\ w.armingMode = armingMode
           ELSE /\ w.armingMode = armingMode
                /\ w.zoneStatus = zoneStatus
                /\ w.item = item
                /\ w.hooks = <<>>

\* a zone ARMED_HOME that a sensor tripped while its class-B sensor is active
C12_Witness ==
    \E z \in Zones :
        /\ armingMode[z] = ARMED_HOME /\ zoneStatus[z] = TRIPPED
        /\ item[EntryTimer(z)] = "ON"
        /\ \E j \in 1..Len(ZoneSensors(z)) :
              sensorClass(ZoneSensors(z)[j]) = "B" /\ isActive(World, ZoneSensors(z)[j])

\* C13: the expiry of the entry timer handled in status TRIPPED sets the
\* status to ALERT and the alert-max timer to ON; with the test mode off it
\* sets every alert device of the zone to ON, with the test mode on it
\* leaves them as they are, and then no alert device is ON in any state.
C13_EntryTimer ==
    /\ [](alarmTestMode => \A d \in AlertNames : item[d] # "ON")
    /\ [][\A z \in Zones :
             zoneStatus[z] = TRIPPED /\ Deliver(EntryTimer(z)) =>
                 /\ zoneStatus'[z] = ALERT
                 /\ item'[AlertMaxTimer(z)] = "ON"
                 /\ \A j \in 1..Len(alertDevices(z)) :
                       item'[alertDevices(z)[j]] = IF alarmTestMode THEN item[alertDevices(z)[j]]
                                                                    ELSE "ON"]_vars

\* an alert in test mode: the alert-max timer runs and the alert devices are OFF
C13_Witness ==
    \E z \in Zones :
        /\ alarmTestMode
        /\ zoneStatus[z] = ALERT /\ item[AlertMaxTimer(z)] = "ON"
        /\ AlertsOff(z)

\* C14: the expiry of the alert-max timer, when handled, sets every alert
\* device of the zone to OFF and leaves the arming modes and the statuses as
\* they are; and, timers expiring and events being handled, an alert device
\* that is ON is followed by a state in which the zone's alert devices are
\* all OFF.
C14_AlertMax ==
    /\ [][\A z \in Zones :
             Deliver(AlertMaxTimer(z)) =>
                 /\ \A j \in 1..Len(alertDevices(z)) : item'[alertDevices(z)[j]] = "OFF"
                 /\ UNCHANGED <<armingMode, zoneStatus>>]_vars
    /\ \A z \in Zones :
          (\E j \in 1..Len(alertDevices(z)) : item[alertDevices(z)[j]] = "ON") ~> AlertsOff(z)

\* the alert devices were switched off by the alert-max timer: the zone is
\* still in ALERT
C14_Witness ==
    \E z \in Zones :
        /\ ~alarmTestMode
        /\ zoneStatus[z] = ALERT
        /\ item[AlertMaxTimer(z)] = "OFF" /\ AlertMaxTimer(z) \notin pending
        /\ AlertsOff(z)

\* the call recorded in log installed an arming mode in zone z (line 223 is
\* followed by the call of onArmingModeChange)
Installs(log, z) == \E j \in 1..Len(log) : log[j].h = "onArmingModeChange" /\ log[j].z = z

\* C15: a call of setArmingMode with a valid mode that installs the mode
\* (also the mode the zone has) ends with the status NORMAL; it does not
\* install the mode in two cases only: the zone has open sections and must
\* not arm with them (the status goes to ERROR and then NORMAL), or
\* ARMED_AWAY is requested and the status is not ARMING (it becomes ARMING).
C15_InstallResets ==
    \A z \in Zones : \A m \in ARMINGMODE :
        LET w == Requested(z, m)
            rejected == /\ m \in {ARMED_HOME, ARMED_AWAY}
                        /\ zoneStatus[z] \notin {ARMING, None}
                        /\ openSections[z] > 0
                        /\ ~canArmWithTrippedSensors(z)
            deferred == ~rejected /\ m = ARMED_AWAY /\ zoneStatus[z] \notin {ARMING, None}
        IN /\ Installs(w.hooks, z) <=> ~rejected /\ ~deferred
           /\ Installs(w.hooks, z) =>
                 /\ w.armingMode[z] = m
                 /\ w.zoneStatus[z] = NORMAL
                 /\ w.item[statusItem(z)] = Str(NORMAL)
           /\ rejected => w.armingMode[z] = armingMode[z] /\ Statuses(w.hooks, z) = <<ERROR, NORMAL>>
           /\ deferred => w.armingMode[z] = armingMode[z] /\ w.zoneStatus[z] = ARMING

\* a zone ARMED_AWAY and NORMAL for which the expiry of the exit timer is
\* still to be handled: the mode was installed by a toggle
C15_Witness ==
    \E z \in Zones :
        /\ armingMode[z] = ARMED_AWAY /\ zoneStatus[z] = NORMAL
        /\ ExitTimer(z) \in pending

\* the items setZoneStatus(NORMAL) of zone z cancels
Cancelled(z) ==
    {EntryTimer(z), ExitTimer(z), AlertMaxTimer(z)}
    \cup {alertDevices(z)[j] : j \in 1..Len(alertDevices(z))}

\* what setZoneStatus(newZoneStatus) of zone z leaves, called in the present state
StatusSet(z, newZoneStatus) == Run(Fresh(World), <<SetZoneStatus(z, newZoneStatus, "")>>)

\* C16: setZoneStatus(NORMAL) leaves the entry, exit and alert-max timers
\* and every alert device of the zone OFF; with another valid status it
\* writes none of them; with an invalid status it raises the error, changes
\* nothing and calls no hook.
C16_SetZoneStatus ==
    \A z \in Zones : \A s \in 0..MaxStatus :
        LET w == StatusSet(z, s)
            written == {w.sent[j].item : j \in 1..Len(w.sent)}
        IN CASE s = NORMAL ->
                  /\ \A d \in Cancelled(z) : w.item[d] = "OFF"
                  /\ w.zoneStatus[z] = NORMAL
             [] s \in ZONESTATUS \ {NORMAL} ->
                  /\ written \cap Cancelled(z) = {}
                  /\ \A d \in Cancelled(z) : w.item[d] = item[d]
                  /\ w.zoneStatus[z] = s
             [] OTHER ->
                  /\ w.raised = "Trying to set an invalid zone status"
                  /\ w.zoneStatus = zoneStatus /\ w.armingMode = armingMode /\ w.item = item
                  /\ w.hooks = <<>> /\ w.sent = <<>>

\* an alert: setZoneStatus(ALERT) left the entry timer's item and the alert
\* devices to onEntryTimer, which switched the devices on
C16_Witness ==
    \E z \in Zones :
        /\ zoneStatus[z] = ALERT
        /\ item[AlertMaxTimer(z)] = "ON"
        /\ \A j \in 1..Len(alertDevices(z)) : item[alertDevices(z)[j]] = "ON"

\* the calls of onNagTimer recorded in log
NagCalls(log) == {j \in 1..Len(log) : log[j].h = "onNagTimer"}

\* the events the rule is triggered by
Events == SensorNames \cup AllTimerItems \cup ToggleItems

\* C17: while a zone is ARMED_HOME or ARMED_AWAY, getNagSensors (called
\* for a sensor event or for the nag timer) returns the empty list, leaves
\* the nag timer OFF and does not call onNagTimer; and a handler calls
\* onNagTimer only for the expiry of the nag timer of a DISARMED zone, with
\* the zone's enabled, active nag sensors, of which there is one at least.
C17_Nag ==
    /\ \A z \in Zones : \A timedOut \in BOOLEAN :
          armingMode[z] \in {ARMED_HOME, ARMED_AWAY} =>
              LET w == Run(Fresh(World), <<GetNagSensors(z, timedOut)>>)
              IN /\ nagSensorsOf(World, z) = <<>>
                 /\ w.item[NagTimer(z)] = "OFF"
                 /\ w.hooks = <<>>
    /\ \A e \in Events :
          LET log == Handled(e).hooks
          IN \A j \in NagCalls(log) :
                /\ e = NagTimer(log[j].z)
                /\ armingMode[log[j].z] = DISARMED
                /\ log[j].l # <<>>
                /\ \A k \in 1..Len(log[j].l) :
                      LET s == log[j].l[k]
                      IN enabled[s] /\ isActive(World, s) /\ nag(s)

\* an armed zone whose nag sensor is active and whose nag timer is OFF, after
\* the event of a sensor of the zone was handled
C17_Witness ==
    \E z \in Zones :
        /\ scenario = [z |-> z, n |-> 1]
        /\ armingMode[z] \in {ARMED_HOME, ARMED_AWAY}
        /\ item[NagTimer(z)] = "OFF"
        /\ \E j \in 1..Len(ZoneSensors(z)) :
              LET s == ZoneSensors(z)[j] IN enabled[s] /\ isActive(World, s) /\ nag(s)

\* what countOpenSections of zone z leaves, called in the present state
Counted(z) == Run(Fresh(World), <<Call("countOpenSections", z)>>)

\* the sensors of zone z that are enabled and active and are no motion
\* detectors, or are any when the zone is ARMED_AWAY
OpenNow(z) ==
    {j \in 1..Len(ZoneSensors(z)) :
        /\ enabled[ZoneSensors(z)[j]]
        /\ isActive(World, ZoneSensors(z)[j])
        /\ (armingMode[z] = ARMED_AWAY \/ "G_Motion" \notin groupNames(ZoneSensors(z)[j]))}

\* the motion detectors of zone z are active and its other sensors are not
OnlyMotionActive(z) ==
    /\ \E j \in 1..Len(ZoneSensors(z)) : "G_Motion" \in groupNames(ZoneSensors(z)[j])
    /\ \A j \in 1..Len(ZoneSensors(z)) :
          isActive(World, ZoneSensors(z)[j]) <=> "G_Motion" \in groupNames(ZoneSensors(z)[j])

\* C18: countOpenSections stores in the zone, and writes to the
\* open-sections item, the number of the zone's sensors that are enabled and
\* active and are no motion detectors unless the zone is ARMED_AWAY; with
\* one motion detector active and nothing else, that is 1 when ARMED_AWAY
\* and 0 otherwise.
C18_CountOpenSections ==
    \A z \in Zones :
        LET w == Counted(z)
        IN /\ w.openSections[z] = Cardinality(OpenNow(z))
           /\ w.item[OpenSectionsItem(z)] = Str(Cardinality(OpenNow(z)))
           /\ OnlyMotionActive(z) /\ (\A j \in 1..Len(ZoneSensors(z)) : enabled[ZoneSensors(z)[j]])
              => w.openSections[z] = IF armingMode[z] = ARMED_AWAY THEN 1 ELSE 0

\* an ARMED_AWAY zone whose motion detector alone is active, counted as 1
C18_Witness ==
    \E z \in Zones :
        /\ armingMode[z] = ARMED_AWAY
        /\ OnlyMotionActive(z)
        /\ openSections[z] = 1 /\ item[OpenSectionsItem(z)] = "1"

\* the events of zone z
ZoneEvents(z) ==
    TimerItems(z) \cup {armAwayToggleSwitch(z), armHomeToggleSwitch(z)}
    \cup {ZoneSensors(z)[j] : j \in 1..Len(ZoneSensors(z))}

\* C19: after an event of a zone was handled, and with no sensor event left
\* to handle, the zone's stored count of open sections is the number of its
\* enabled, active sensors, motion detectors counted only when the zone is
\* ARMED_AWAY, for the arming mode the zone then has.
C19_CountCurrent ==
    [][\A z \in Zones : \A e \in ZoneEvents(z) :
          /\ pending' \cap SensorNames = {}
          /\ (IF e \in ToggleItems THEN Toggle(e) ELSE Deliver(e))
          => openSections'[z] = Cardinality(OpenNow(z))']_vars

(***************************************************************************)
(* A configuration with one device in two zones                            *)
(***************************************************************************)
InitShared ==
    /\ Loaded(SharedSensors)
    /\ ~alarmTestMode
    /\ \A s \in SensorNames : enabled[s]

SpecShared == InitShared /\ [][Next]_vars

\* zone z was worked on in the step: its mode, status or count differs
Processed(z) ==
    \/ armingMode'[z] # armingMode[z]
    \/ zoneStatus'[z] # zoneStatus[z]
    \/ openSections'[z] # openSections[z]

\* C20: one handled event is processed by at most one zone: the zone loop
\* ends at the first zone the event matches, also when the same sensor
\* device is configured in two zones.
C20_OneZone ==
    [][\A e \in Events :
          (IF e \in ToggleItems THEN Toggle(e) ELSE Deliver(e))
          => \A y, z \in Zones : Processed(y) /\ Processed(z) => y = z]_vars

(***************************************************************************)
(* The queries other scripts make of the alarm system.  A zone is given    *)
(* as str(zone) of the ordinal number or of the name; the list of zones    *)
(* has Len(W.zoneStatus) elements.                                         *)
(***************************************************************************)
MaxZones == 3

\* cfg['name'] of the zones, in the order of the configuration
zoneNames == <<"House", "Garage", "Shed", "Barn">>

\* str(zone) of the zones a caller asks for: ordinals, names, and no zone
ZoneRefs == {"0", "1", "2", "3", "4", "-1", "House", "Garage", "Shed", "Nowhere"}

\* str.isdigit()
isdigit(s) == \E n \in 1..Len(NumStr) : NumStr[n] = s

IdeAlarmZone_isArmed(W, z) == W.armingMode[z] # DISARMED

IdeAlarmZone_isDisArmed(W, z) == ~IdeAlarmZone_isArmed(W, z)

IdeAlarmZone_getZoneStatus(W, z) == W.zoneStatus[z]

\* the index of the first zone of that name, or None
getZoneIndex(W, zoneName) ==
    LET found == {i \in 0..(Len(W.zoneStatus) - 1) : zoneNames[i + 1] = zoneName}
    IN IF found # {}
       THEN [none |-> FALSE, i |-> CHOOSE i \in found : \A k \in found : i <= k]
       ELSE [none |-> TRUE, i |-> 0]

\* lines 456-460: zoneIndex of the zone a query is made for
zoneIndexOf(W, zone) ==
    IF isdigit(zone) THEN [none |-> FALSE, i |-> IntValue(zone) - 1] ELSE getZoneIndex(W, zone)

\* self.alarmZones[zoneIndex] of a Python list: the number of the zone that is
\* the element, a negative index counting from the end of the list
alarmZonesAt(W, zoneIndex) ==
    LET n == Len(W.zoneStatus)
    IN IF zoneIndex.none
       THEN [z |-> 0, raised |-> "TypeError: list indices must be integers"]
       ELSE IF zoneIndex.i >= n \/ zoneIndex.i < 0 - n
       THEN [z |-> 0, raised |-> "IndexError: index out of range"]
       ELSE [z |-> IF zoneIndex.i >= 0 THEN zoneIndex.i + 1 ELSE n + zoneIndex.i + 1, raised |-> ""]

IdeAlarm_isArmed(W, zone) ==
    LET at == alarmZonesAt(W, zoneIndexOf(W, zone))
    IN IF at.raised # "" THEN [value |-> None, raised |-> at.raised]
       ELSE [value |-> IdeAlarmZone_isArmed(W, at.z), raised |-> ""]

IdeAlarm_isDisArmed(W, zone) ==
    LET at == alarmZonesAt(W, zoneIndexOf(W, zone))
    IN IF at.raised # "" THEN [value |-> None, raised |-> at.raised]
       ELSE [value |-> IdeAlarmZone_isDisArmed(W, at.z), raised |-> ""]

IdeAlarm_getZoneStatus(W, zone) ==
    LET at == alarmZonesAt(W, zoneIndexOf(W, zone))
    IN IF at.raised # "" THEN [value |-> None, raised |-> at.raised]
       ELSE [value |-> IdeAlarmZone_getZoneStatus(W, at.z), raised |-> ""]

\* lines 503-506: the rounds of the loop from i on
RECURSIVE alertingZonesFrom(_, _, _)
alertingZonesFrom(W, i, alertingZones) ==
    IF i >= Len(W.zoneStatus) THEN [value |-> alertingZones, raised |-> ""]
    ELSE LET status == IdeAlarm_getZoneStatus(W, Str(i))
         IN IF status.raised # "" THEN status
            ELSE alertingZonesFrom(W, i + 1, IF status.value = ALERT THEN alertingZones + 1
                                                                      ELSE alertingZones)

\* fault: the loop begins with i = 1
getAlertingZonesCount_fromOne(W) == alertingZonesFrom(W, 1, 0)

getAlertingZonesCount(W) == alertingZonesFrom(W, 0, 0)

\* an alarm system of up to MaxZones zones, each in any mode and status;
\* the queries read nothing else
InitQuery ==
    /\ \E n \in 0..MaxZones :
          /\ armingMode \in [1..n -> ARMINGMODE]
          /\ zoneStatus \in [1..n -> ZONESTATUS]
          /\ openSections = [z \in 1..n |-> 0]
          /\ zoneSensors = [z \in 1..n |-> <<>>]
    /\ item = [name \in ItemNames |-> "NULL"]
    /\ enabled = [s \in SensorNames |-> TRUE]
    /\ alarmTestMode = FALSE
    /\ pending = {}
    /\ reported = [s \in SensorNames |-> <<>>]
    /\ threads = NoThreads
    /\ batch = <<>>
    /\ snap = <<>>
    /\ prelude = 0
    /\ hooks = <<>>
    /\ raised = ""
    /\ scenario = NoScenario
    /\ answer = NoAnswer

\* a query changes nothing
Answers(call, zone, r) ==
    /\ answer' = [call |-> call, zone |-> zone, value |-> r.value, raised |-> r.raised]
    /\ UNCHANGED <<armingMode, zoneStatus, openSections, item, enabled, alarmTestMode,
                   zoneSensors, pending, reported, threads, batch, snap, prelude, hooks,
                   raised, scenario>>

CallIsArmed(zone) == Answers("isArmed", zone, IdeAlarm_isArmed(World, zone))

CallIsDisArmed(zone) == Answers("isDisArmed", zone, IdeAlarm_isDisArmed(World, zone))

CallGetZoneStatus(zone) == Answers("getZoneStatus", zone, IdeAlarm_getZoneStatus(World, zone))

CallGetAlertingZonesCount == Answers("getAlertingZonesCount", "", getAlertingZonesCount(World))

NextQuery ==
    \/ \E zone \in ZoneRefs : CallIsArmed(zone)
    \/ \E zone \in ZoneRefs : CallIsDisArmed(zone)
    \/ \E zone \in ZoneRefs : CallGetZoneStatus(zone)
    \/ CallGetAlertingZonesCount

SpecQuery == InitQuery /\ [][NextQuery]_vars

\* C22: getAlertingZonesCount returns the number of the zones whose status
\* is ALERT, for every number of zones and every statuses of them.
C22_AlertingZonesCount ==
    answer.call = "getAlertingZonesCount" =>
        /\ answer.raised = ""
        /\ answer.value = Cardinality({z \in 1..Len(zoneStatus) : zoneStatus[z] = ALERT})

\* three zones of which the first alone is in ALERT: the count is 1
C22_Witness ==
    /\ answer.call = "getAlertingZonesCount"
    /\ Len(zoneStatus) = MaxZones
    /\ zoneStatus[1] = ALERT
    /\ \A z \in 2..MaxZones : zoneStatus[z] # ALERT
    /\ answer.value = 1

\* the number of the zone that str(zone) names: its ordinal or its name (0 if none)
Named(zone) ==
    LET zs == {z \in 1..Len(zoneStatus) : zone = Str(z) \/ zone = zoneNames[z]}
    IN IF zs = {} THEN 0 ELSE CHOOSE z \in zs : TRUE

\* C23: isArmed, isDisArmed and getZoneStatus of the alarm system, called
\* with the ordinal k in 1..n or with the name of a zone, return the value
\* of that zone; called with anything else (an unknown name, the ordinal 0
\* or one above n) they raise an error.
C23_ZoneReference ==
    answer.call \in {"isArmed", "isDisArmed", "getZoneStatus"} =>
        IF Named(answer.zone) = 0
        THEN answer.raised # ""
        ELSE /\ answer.raised = ""
             /\ answer.value = CASE answer.call = "isArmed" -> armingMode[Named(answer.zone)] # DISARMED
                                 [] answer.call = "isDisArmed" -> armingMode[Named(answer.zone)] = DISARMED
                                 [] OTHER -> zoneStatus[Named(answer.zone)]

\* the sensors of zone z that are open under the mode: enabled, active, with
\* armWarn if the zone is being armed, and not of class B under ARMED_HOME
OpenUnder(z, mode, isArming) ==
    {s \in {ZoneSensors(z)[j] : j \in 1..Len(ZoneSensors(z))} :
        /\ enabled[s] /\ isActive(World, s)
        /\ isArming => armWarn(s)
        /\ mode = ARMED_AWAY \/ (mode = ARMED_HOME /\ sensorClass(s) # "B")}

\* C24: getOpenSensors with mins = 0 returns, each once, the zone's sensors
\* that are enabled and active, have armWarn if isArming is given, and are
\* admitted by the arming mode (the one given, or else the zone's): every
\* such sensor under ARMED_AWAY, those not of class B under ARMED_HOME, and
\* none under DISARMED.
C24_OpenSensors ==
    \A z \in Zones : \A given \in ARMINGMODE \cup {None} : \A isArming \in BOOLEAN :
        LET mode == IF given = None THEN armingMode[z] ELSE given
            openSensors == getOpenSensors(World, z, given, isArming)
        IN /\ {openSensors[j] : j \in 1..Len(openSensors)} = OpenUnder(z, mode, isArming)
           /\ Len(openSensors) = Cardinality(OpenUnder(z, mode, isArming))
           /\ mode = DISARMED => openSensors = <<>>

\* a zone ARMED_HOME with a sensor of class B and another sensor active:
\* getOpenSensors returns the other sensor alone
C24_Witness ==
    \E z \in Zones :
        /\ armingMode[z] = ARMED_HOME
        /\ \E j, k \in 1..Len(ZoneSensors(z)) :
              /\ sensorClass(ZoneSensors(z)[j]) = "B" /\ isActive(World, ZoneSensors(z)[j])
              /\ sensorClass(ZoneSensors(z)[k]) # "B" /\ isActive(World, ZoneSensors(z)[k])
              /\ getOpenSensors(World, z, None, FALSE) = <<ZoneSensors(z)[k]>>

\* what the arming mode items may hold when the script is loaded
StoredModes == {"NULL", "UNDEF", "0", "1", "2", "3"}

\* "ideAlarm = IdeAlarm()" with the items as they are now, and the arming
\* mode items as given
Constructed(modes) ==
    Run([armingMode |-> [z \in Zones |-> None],
         zoneStatus |-> [z \in Zones |-> None],
         openSections |-> [z \in Zones |-> 0],
         item |-> [n \in ItemNames |->
                      IF \E z \in Zones : n = armingModeItem(z)
                      THEN modes[CHOOSE z \in Zones : n = armingModeItem(z)]
                      ELSE item[n]],
         hooks |-> <<>>, sent |-> <<>>, raised |-> ""],
        <<Call("IdeAlarm_init", 0)>>)

\* zone z has an enabled, active sensor that nags
HasNagSensor(z) ==
    \E j \in 1..Len(ZoneSensors(z)) :
        LET s == ZoneSensors(z)[j] IN enabled[s] /\ isActive(World, s) /\ nag(s)

\* C25: when the alarm system has been constructed, whatever the items hold
\* at that time, every zone has the arming mode its arming mode item held
\* (DISARMED if it held none), installed without the exit delay and without
\* the check of the open sensors; its status is NORMAL, its entry, exit and
\* alert-max timers and its alert devices are OFF, and its nag timer is ON
\* if the zone is DISARMED and has an enabled, active nag sensor, and OFF
\* otherwise.
C25_Construction ==
    \A modes \in [Zones -> StoredModes] :
        LET w == Constructed(modes)
        IN w.raised = "" =>
             \A z \in Zones :
                /\ w.armingMode[z] \in ARMINGMODE
                /\ w.armingMode[z] = IF modes[z] \in {"NULL", "UNDEF"} THEN DISARMED
                                                                       ELSE IntValue(modes[z])
                /\ Statuses(w.hooks, z) = <<NORMAL>>
                /\ \A j \in 1..Len(w.hooks) : w.hooks[j].h # "onArmingWithOpenSensors"
                /\ w.zoneStatus[z] = NORMAL
                /\ \A d \in Cancelled(z) : w.item[d] = "OFF"
                /\ w.item[NagTimer(z)] =
                      IF w.armingMode[z] = DISARMED /\ HasNagSensor(z) THEN "ON" ELSE "OFF"

\* a zone that does not arm with open sensors, stored as ARMED_AWAY, with a
\* sensor open and the alert devices on when the script is loaded: it is
\* constructed ARMED_AWAY
C25_Witness ==
    \E z \in Zones :
        /\ ~canArmWithTrippedSensors(z)
        /\ item[armingModeItem(z)] = "2"
        /\ zoneStatus[z] = ALERT
        /\ \E j \in 1..Len(ZoneSensors(z)) : isActive(World, ZoneSensors(z)[j])
        /\ Constructed([y \in Zones |-> item[armingModeItem(y)]]).armingMode[z] = ARMED_AWAY

\* setArmingMode(mode) of zone z is rejected in the present state: the zone
\* has open sections and must not arm with them
Rejected(z, mode) ==
    /\ mode \in {ARMED_HOME, ARMED_AWAY}
    /\ zoneStatus[z] \notin {ARMING, None}
    /\ openSections[z] > 0
    /\ ~canArmWithTrippedSensors(z)

\* the calls of onZoneStatusChange recorded in log, in order
StatusCalls(log) == SelectSeq(log, LAMBDA c : c.h = "onZoneStatusChange")

\* C26: when setArmingMode is rejected because of open sensors,
\* onZoneStatusChange is called twice, first with the new status ERROR and
\* the error message and then with the new status NORMAL and the old status
\* ERROR; onArmingModeChange is not called, and the arming mode item is not
\* written and the arming mode not changed.
C26_RejectedArming ==
    \A z \in Zones : \A mode \in {ARMED_HOME, ARMED_AWAY} :
        Rejected(z, mode) =>
            LET w == Requested(z, mode)
                calls == StatusCalls(w.hooks)
            IN /\ Len(calls) = 2
               /\ calls[1].z = z /\ calls[1].a = ERROR
               /\ calls[1].m = "Arming is not allowed with open sensors"
               /\ calls[2].z = z /\ calls[2].a = NORMAL /\ calls[2].b = ERROR
               /\ \A j \in 1..Len(w.hooks) : w.hooks[j].h # "onArmingModeChange"
               /\ \A j \in 1..Len(w.sent) : w.sent[j].item # armingModeItem(z)
               /\ w.item[armingModeItem(z)] = item[armingModeItem(z)]
               /\ w.armingMode = armingMode

\* a DISARMED zone in status NORMAL with an open section, for which the
\* arming is rejected with ERROR and then NORMAL
C26_Witness ==
    \E z \in Zones :
        /\ armingMode[z] = DISARMED /\ zoneStatus[z] = NORMAL
        /\ Rejected(z, ARMED_HOME)
        /\ Statuses(Requested(z, ARMED_HOME).hooks, z) = <<ERROR, NORMAL>>

\* the status item and the arming mode item of zone z hold the zone's status
\* and arming mode
ItemsInSync(z) ==
    /\ item[statusItem(z)] = Str(zoneStatus[z])
    /\ item[armingModeItem(z)] = Str(armingMode[z])

\* C27: whenever no handler is running, the status item of every zone holds
\* the zone's status and its arming mode item holds the zone's arming mode.
C27_ItemsInSync ==
    threads = NoThreads => \A z \in Zones : ItemsInSync(z)

\* the rule with the alert devices in use (no test mode) and every sensor enabled
SpecRule == InitApi /\ [][Next]_vars

\* the fields and the items two handlers leave, the one run after the other
After(e1, e2) ==
    LET w == Run(Fresh(Run(Fresh(World), <<Execute(e1)>>)), <<Execute(e2)>>)
    IN <<w.armingMode, w.zoneStatus, w.openSections, w.item>>

\* the events that can be handled now: those raised, and the toggle switches
Ready == pending \cup ToggleItems

\* C28: with no sensor and no alert device in two zones, the handling of an
\* event of a zone leaves the arming mode, the status, the count of open
\* sections, the timers and the alert devices of every other zone as they
\* are; and two events of two zones leave the same state in either order.
C28_ZonesApart ==
    /\ [](\A y, z \in Zones : \A e1 \in Ready \cap ZoneEvents(y) : \A e2 \in Ready \cap ZoneEvents(z) :
             y < z => After(e1, e2) = After(e2, e1))
    /\ [][\A z \in Zones : \A e \in ZoneEvents(z) :
             (IF e \in ToggleItems THEN pending' = pending /\ Toggle(e) ELSE Deliver(e))
             => \A y \in Zones \ {z} :
                   /\ armingMode'[y] = armingMode[y]
                   /\ zoneStatus'[y] = zoneStatus[y]
                   /\ openSections'[y] = openSections[y]
                   /\ \A d \in TimerItems(y) \cup Cancelled(y) : item'[d] = item[d]]_vars

\* a zone in ALERT with its alert devices on while another zone is ARMING
\* with its exit timer running
C28_Witness ==
    \E y, z \in Zones :
        /\ y # z
        /\ zoneStatus[y] = ALERT /\ ~AlertsOff(y)
        /\ zoneStatus[z] = ARMING /\ item[ExitTimer(z)] = "ON"

\* the toggle t of zone z installs the mode at once: no look at the open
\* sensors, the exit timer stopped, the status NORMAL
InstallsAtOnce(z, t, mode) ==
    /\ armingMode'[z] = mode
    /\ zoneStatus'[z] = NORMAL
    /\ item'[ExitTimer(z)] = "OFF"
    /\ Statuses(Handled(t).hooks, z) = <<NORMAL>>
    /\ \A j \in 1..Len(Handled(t).hooks) : Handled(t).hooks[j].h # "onArmingWithOpenSensors"

C30_ExitTimer ==
    [][\A z \in Zones :
          zoneStatus[z] = ARMING =>
             /\ Deliver(ExitTimer(z))
                => /\ armingMode'[z] = ARMED_AWAY
                   /\ zoneStatus'[z] = NORMAL
                   /\ Statuses(Handled(ExitTimer(z)).hooks, z) = <<NORMAL>>
                   /\ \A j \in 1..Len(Handled(ExitTimer(z)).hooks) :
                         Handled(ExitTimer(z)).hooks[j].h # "onArmingWithOpenSensors"
             /\ \A j \in 1..Len(ZoneSensors(z)) :
                   Deliver(ZoneSensors(z)[j])
                   => /\ zoneStatus'[z] = ARMING
                      /\ item'[EntryTimer(z)] = item[EntryTimer(z)]]_vars

\* a zone that must not arm with open sensors is ARMING with a sensor open
\* and its exit timer expired, and the handling of the expiry arms it
C30_Witness ==
    \E z \in Zones :
        /\ ~canArmWithTrippedSensors(z)
        /\ zoneStatus[z] = ARMING /\ armingMode[z] = DISARMED
        /\ openSections[z] > 0
        /\ ExitTimer(z) \in pending
        /\ Handled(ExitTimer(z)).armingMode[z] = ARMED_AWAY

\* C31: with events handled one at a time, a zone whose status is TRIPPED
\* or ALERT is ARMED_HOME or ARMED_AWAY: a DISARMED zone is never TRIPPED
\* or ALERT.
C31_AlarmOnlyArmed ==
    \A z \in Zones :
        zoneStatus[z] \in {TRIPPED, ALERT} => armingMode[z] \in {ARMED_HOME, ARMED_AWAY}

\* one zone in ALERT while ARMED_HOME and the other TRIPPED while ARMED_AWAY
C31_Witness ==
    /\ \E z \in Zones : zoneStatus[z] = ALERT /\ armingMode[z] = ARMED_HOME
    /\ \E z \in Zones : zoneStatus[z] = TRIPPED /\ armingMode[z] = ARMED_AWAY

\* C32: with events handled one at a time, each timer is ON only in its
\* own status: the entry timer only if the zone's status is TRIPPED, the
\* exit timer only if it is ARMING, the alert-max timer only if it is ALERT.
C32_TimerInItsStatus ==
    \A z \in Zones :
        /\ item[EntryTimer(z)] = "ON" => zoneStatus[z] = TRIPPED
        /\ item[ExitTimer(z)] = "ON" => zoneStatus[z] = ARMING
        /\ item[AlertMaxTimer(z)] = "ON" => zoneStatus[z] = ALERT

\* C33: with events handled one at a time, an alert device of a zone (of
\* that zone only) is ON only if the zone's status is ALERT and the test
\* mode is off: no alert device is ON in status NORMAL, TRIPPED, ARMING or
\* ERROR.
C33_SirenOnlyInAlert ==
    \A z \in Zones : \A j \in 1..Len(alertDevices(z)) :
        item[alertDevices(z)[j]] = "ON" => zoneStatus[z] = ALERT /\ ~alarmTestMode

\* the events of zone z that are neither a toggle nor the expiry of its
\* entry or exit timer
Bystanders(z) ==
    {ZoneSensors(z)[j] : j \in 1..Len(ZoneSensors(z))} \cup {NagTimer(z), AlertMaxTimer(z)}

\* C34: timers expiring and events being handled, a zone that is TRIPPED
\* becomes ALERT, unless a change of its arming mode takes it to NORMAL
\* first: a step that takes a zone out of TRIPPED either gives ALERT or
\* changes the arming mode and gives NORMAL, and the event of a sensor and
\* the expiry of the nag or the alert-max timer leave a TRIPPED zone TRIPPED.
C34_TrippedToAlert ==
    /\ [][\A z \in Zones :
             zoneStatus[z] = TRIPPED /\ zoneStatus'[z] # TRIPPED =>
                 \/ zoneStatus'[z] = ALERT
                 \/ zoneStatus'[z] = NORMAL /\ armingMode'[z] # armingMode[z]]_vars
    /\ [][\A z \in Zones : \A e \in Bystanders(z) :
             zoneStatus[z] = TRIPPED /\ Deliver(e) => zoneStatus'[z] = TRIPPED]_vars
    /\ \A z \in Zones : zoneStatus[z] = TRIPPED ~> zoneStatus[z] \in {ALERT, NORMAL}

\* C35: a zone in ALERT stays in ALERT until its arming mode changes: the
\* event of a sensor and the expiry of the nag or the alert-max timer leave
\* its status ALERT, and a step that takes it out of ALERT handles one of
\* its toggle switches, changes the arming mode and gives NORMAL.
C35_AlertStays ==
    /\ [][\A z \in Zones : \A e \in Bystanders(z) :
             zoneStatus[z] = ALERT /\ Deliver(e) => zoneStatus'[z] = ALERT]_vars
    /\ [][\A z \in Zones :
             zoneStatus[z] = ALERT /\ zoneStatus'[z] # ALERT =>
                 /\ zoneStatus'[z] = NORMAL
                 /\ armingMode'[z] # armingMode[z]
                 /\ Toggle(armAwayToggleSwitch(z)) \/ Toggle(armHomeToggleSwitch(z))]_vars

\* every ERROR in the list of statuses is followed by NORMAL
ErrorThenNormal(statuses) ==
    \A j \in 1..Len(statuses) :
        statuses[j] = ERROR => j < Len(statuses) /\ statuses[j + 1] = NORMAL

\* C36: ERROR is never the status of a zone when a handler has ended: a
\* handler that sets the status ERROR sets it to NORMAL before it returns,
\* so that between events the status of a zone is NORMAL, TRIPPED, ALERT or
\* ARMING.
C36_NoErrorAtRest ==
    /\ \A z \in Zones : zoneStatus[z] \in {NORMAL, TRIPPED, ALERT, ARMING}
    /\ \A e \in Events : \A z \in Zones :
          LET w == Handled(e)
          IN /\ ErrorThenNormal(Statuses(w.hooks, z))
             /\ w.zoneStatus[z] # ERROR

\* the expiry of the exit timer of a zone that a toggle has armed in the
\* meantime is to be handled, and the handler sets ERROR and then NORMAL
C36_Witness ==
    \E z \in Zones :
        /\ ExitTimer(z) \in pending
        /\ armingMode[z] # DISARMED /\ zoneStatus[z] = NORMAL
        /\ Statuses(Handled(ExitTimer(z)).hooks, z) = <<ERROR, NORMAL>>
        /\ Handled(ExitTimer(z)).zoneStatus[z] = NORMAL

\* the call recorded in log warned of open sensors
Warned(log) == \E j \in 1..Len(log) : log[j].h = "onArmingWithOpenSensors"

\* C37: the open-sensor check of setArmingMode looks at the stored count
\* (that of the last sensor event or of the construction); and a request
\* for ARMED_AWAY on a DISARMED zone whose motion detectors alone are
\* active (every sensor event handled) is not rejected and does not call
\* onArmingWithOpenSensors, also in a zone that must not arm with open
\* sensors.
C37_MotionAlone ==
    \A z \in Zones :
        LET w == Requested(z, ARMED_AWAY)
        IN /\ zoneStatus[z] \notin {ARMING, None} => (Warned(w.hooks) <=> openSections[z] > 0)
           /\ armingMode[z] = DISARMED /\ OnlyMotionActive(z) /\ pending \cap SensorNames = {} =>
                 /\ ~Warned(w.hooks)
                 /\ \A j \in 1..Len(w.hooks) : ~(w.hooks[j].h = "onZoneStatusChange" /\ w.hooks[j].a = ERROR)

\* zone z is DISARMED and has an enabled, active nag sensor
NagDue(z) == nagSensorsOf(World, z) # <<>>

\* zone z is nagging: its nag timer runs, or its expiry is to be handled
Nagging(z) == NagDue(z) /\ (item[NagTimer(z)] = "ON" \/ NagTimer(z) \in pending)

\* the expiry of the nag timer of zone z is handled, and onNagTimer is called
NagStep(z) == Deliver(NagTimer(z)) /\ NagCalls(Handled(NagTimer(z)).hooks) # {}

\* what the handlers do for the nag timer: while the zone is DISARMED and
\* has an enabled, active nag sensor, the handling of an expiry of its nag
\* timer calls onNagTimer once, with the list of those sensors, and leaves
\* the nag timer ON; the event of a sensor handled while the nag timer is ON
\* does not write ON to the timer and does not call onNagTimer
NagHandling ==
    /\ [][\A z \in Zones :
             NagDue(z) /\ Deliver(NagTimer(z)) =>
                 LET log == Handled(NagTimer(z)).hooks
                 IN /\ Cardinality(NagCalls(log)) = 1
                    /\ \A j \in NagCalls(log) :
                          log[j].z = z /\ log[j].l = nagSensorsOf(World, z) /\ log[j].l # <<>>
                    /\ item'[NagTimer(z)] = "ON"]_vars
    /\ [][\A z \in Zones : \A k \in 1..Len(ZoneSensors(z)) :
             item[NagTimer(z)] = "ON" /\ Deliver(ZoneSensors(z)[k]) =>
                 LET w == Handled(ZoneSensors(z)[k])
                 IN /\ NagCalls(w.hooks) = {}
                    /\ \A j \in 1..Len(w.sent) :
                          ~(w.sent[j].item = NagTimer(z) /\ w.sent[j].value = "ON")]_vars

StatusWritten(sent, z) == \E j \in 1..Len(sent) : sent[j].item = statusItem(z)

\* C39: a call of setZoneStatus with a valid status calls
\* onZoneStatusChange once, with the new status and the status the zone had,
\* also when the two are the same; so installing ARMED_HOME or DISARMED in
\* a zone whose status is NORMAL reports a change from NORMAL to NORMAL, and
\* the status item, which holds NORMAL already, is not written.
C39_StatusHook ==
    /\ \A z \in Zones : \A s \in ZONESTATUS :
          LET w == StatusSet(z, s)
              calls == StatusCalls(w.hooks)
          IN /\ Len(calls) = 1
             /\ calls[1].z = z /\ calls[1].a = s /\ calls[1].b = zoneStatus[z]
             /\ (s = zoneStatus[z] /\ item[statusItem(z)] = Str(s)) => ~StatusWritten(w.sent, z)
    /\ \A z \in Zones : \A mode \in {DISARMED, ARMED_HOME} :
          zoneStatus[z] = NORMAL /\ ~Rejected(z, mode) =>
              LET w == Requested(z, mode)
                  calls == StatusCalls(w.hooks)
              IN /\ w.armingMode[z] = mode
                 /\ Len(calls) = 1
                 /\ calls[1].z = z /\ calls[1].a = NORMAL /\ calls[1].b = NORMAL
                 /\ ~StatusWritten(w.sent, z)
                 /\ w.item[statusItem(z)] = Str(NORMAL)

\* a zone armed again by a toggle, ARMED_HOME in status NORMAL, the expiry
\* of its entry timer still to be handled: it is disarmed with one call of
\* onZoneStatusChange from NORMAL to NORMAL and no write to its status item
C39_Witness ==
    \E z \in Zones :
        /\ EntryTimer(z) \in pending
        /\ armingMode[z] = ARMED_HOME /\ zoneStatus[z] = NORMAL
        /\ item[statusItem(z)] = Str(NORMAL)
        /\ LET w == Requested(z, DISARMED)
           IN /\ w.armingMode[z] = DISARMED
              /\ Statuses(w.hooks, z) = <<NORMAL>>
              /\ ~StatusWritten(w.sent, z)

====
